---- MODULE Spec2Model ----
(***************************************************************************)
(* Authentication (authplugin.cpp) is each worker's facade over the        *)
(* password file and the plugin; its section describes how it is modelled. *)
(*                                                                         *)
(* Every SubscriptionStore operation that takes subscriptionsRwlock or     *)
(* retainedMessagesRwlock in write mode holds it from its first statement  *)
(* to its return, so each such operation is one atomic action here; the    *)
(* interleavings of the worker threads are the interleavings of actions.   *)
(*                                                                         *)
(* A topic is modelled by its vector of subtopics.  The first character of *)
(* the topic string is '$' exactly when the first subtopic is a token of   *)
(* DollarTokens.  A trie node is named by its path from a root:            *)
(* <<"root", "a", "+">> is root.children["a"].childrenPlus.  The last      *)
(* token "+" names the childrenPlus slot, "#" the childrenPound slot and   *)
(* any other token the entry of the children map.                          *)
(***************************************************************************)
EXTENDS Integers, Sequences, FiniteSets, TLC

\* ------------------------------------------------------------------ bounds
MaxConns == 2          \* connections accepted in one behaviour
MaxTrieNodes == 3      \* non-root nodes of the subscription trie
MaxRetainedNodes == 3  \* non-root nodes of the retained tree
MaxTopicDepth == 3     \* subtopics of a publish topic
MaxFilterDepth == 2    \* subtopics of a subscription filter
MaxTime == 1           \* ticks of the steady clock
MaxSessions == 3       \* Session objects referenced at one time
MaxPending == 2        \* packets in the pending queue of one session
MaxFileLines == 2      \* lines of a password file

\* ------------------------------------------------------------- input sets
Literals == {"a", "b"}        \* literal subtopics of publish topics
FilterLiterals == {"a"}       \* literal subtopics of subscription filters
DollarTokens == {"$S"}
Wildcards == {"+", "#"}
ClientIds == {"k1", "k2"}
QoS == 0..2
Workers == {1, 2}
Conns == 1..MaxConns
SessionIds == 1..MaxSessions
ExpireSeconds == {0, 1}
NoSession == 0
NoClient == 0

ROOT == "root"
ROOTDOLLAR == "rootDollar"
RETAINEDROOT == "retainedMessagesRoot"
RETAINEDROOTDOLLAR == "retainedMessagesRootDollar"

\* Publish topics: no wildcards; a '$' token only in first position.
TopicsOfLen(n) ==
    { t \in [1..n -> Literals \cup DollarTokens] :
        \A i \in 2..n : t[i] \in Literals }
PublishTopics == UNION { TopicsOfLen(n) : n \in 1..MaxTopicDepth }

\* Subscription filters: '#' only as the last token.
FiltersOfLen(n) ==
    { f \in [1..n -> FilterLiterals \cup DollarTokens \cup Wildcards] :
        /\ \A i \in 1..(n-1) : f[i] # "#"
        /\ \A i \in 2..n : f[i] \notin DollarTokens }
Filters == UNION { FiltersOfLen(n) : n \in 1..MaxFilterDepth }

VARIABLES
    clients,        \* Client objects ever accepted: conn -> fields
    clients_by_fd,  \* ThreadData::clients_by_fd of each worker (set of fds)
    sessionsById,   \* SubscriptionStore::sessionsById : client-id -> session
    sessions,       \* the Session objects that exist (heap): id -> fields
    subs,           \* subscription trie: node path -> vector<Subscription>
    retained,       \* retained tree: node path -> set of RetainedMessage
    retainedMessageCount,
    now,            \* steady clock
    last,           \* the last operation: its arguments and what it did
    settings,       \* Settings: the configuration every Authentication reads
    authPlugin,     \* ThreadData::authPlugin of each worker, and where the
                    \* worker's thread is inside its Authentication
    initMutex,      \* Authentication::initMutex: the worker that holds it
    authChecksMutex, \* Authentication::authChecksMutex: the worker that holds it
    retainedMessagesFile,   \* the retained snapshot file
    sessionsFile,           \* the sessions and subscriptions snapshot file
    threads,                \* where each worker's thread is inside a store call
    subscriptionsRwlock,    \* SubscriptionStore::subscriptionsRwlock
    retainedMessagesRwlock  \* SubscriptionStore::retainedMessagesRwlock

storeVars == <<clients, clients_by_fd, sessionsById, sessions, subs, retained,
               retainedMessageCount, now, last>>

authVars == <<settings, authPlugin, initMutex, authChecksMutex>>

fileVars == <<retainedMessagesFile, sessionsFile>>

lockVars == <<threads, subscriptionsRwlock, retainedMessagesRwlock>>

vars == <<clients, clients_by_fd, sessionsById, sessions, subs, retained,
          retainedMessageCount, now, last,
          settings, authPlugin, initMutex, authChecksMutex,
          retainedMessagesFile, sessionsFile,
          threads, subscriptionsRwlock, retainedMessagesRwlock>>

\* ---------------------------------------------------------------- helpers
RECURSIVE SetToSeq(_)
SetToSeq(S) ==
    IF S = {} THEN <<>>
    ELSE LET x == CHOOSE y \in S : TRUE IN <<x>> \o SetToSeq(S \ {x})

RECURSIVE Flatten(_)
Flatten(ss) == IF ss = <<>> THEN <<>> ELSE Head(ss) \o Flatten(Tail(ss))

RECURSIVE SumSeq(_)
SumSeq(ns) == IF ns = <<>> THEN 0 ELSE Head(ns) + SumSeq(Tail(ns))

Min(a, b) == IF a <= b THEN a ELSE b

\* topic[0] == '$'
StartsWithDollar(topic) == Len(topic) > 0 /\ topic[1] \in DollarTokens

\* The nodes directly below node p in a tree T (a function on paths).
ChildPaths(T, p) ==
    { q \in DOMAIN T : Len(q) = Len(p) + 1 /\ SubSeq(q, 1, Len(p)) = p }

\* SubscriptionNode::children (the map of literal subtopics)
ChildrenMap(T, p) == { q \in ChildPaths(T, p) : q[Len(q)] \notin Wildcards }
HasChildrenPlus(T, p) == Append(p, "+") \in DOMAIN T
HasChildrenPound(T, p) == Append(p, "#") \in DOMAIN T

\* ----------------------------------------------------- weak references
\* weak_ptr<Session>::lock(): the Session object still exists.
SessionLock(s) == s \in DOMAIN sessions

\* The Client object exists as long as its worker's table holds it.
ClientAlive(c) == \E w \in Workers : c \in clients_by_fd[w]

\* Session::makeSharedClient(): the session's weak client reference.
MakeSharedClient(s) ==
    IF sessions[s].client # NoClient /\ ClientAlive(sessions[s].client)
    THEN sessions[s].client ELSE NoClient

\* Session::writePacket chooses the QoS of the copy it sends.
EffectiveQos(packetQos, max_qos) == Min(packetQos, max_qos)

\* One call of Session::writePacket(packet, max_qos, retain, count).
WriteCall(s, node, topic, payload, qos, max_qos, retain) ==
    [session |-> s, node |-> node, topic |-> topic, payload |-> payload,
     qos |-> EffectiveQos(qos, max_qos), max_qos |-> max_qos, retain |-> retain]

\* ------------------------------------------------- Subscription, nodes
\* Subscription::operator==
SubscriptionEqIn(heap, a, b) ==
    IF a.session \notin DOMAIN heap /\ b.session \notin DOMAIN heap THEN TRUE
    ELSE IF a.session \notin DOMAIN heap \/ b.session \notin DOMAIN heap THEN FALSE
    ELSE heap[a.session].client_id = heap[b.session].client_id

\* std::find(subscribers.begin(), subscribers.end(), sub); 0 for end()
FindSubscriptionIn(heap, subscribers, sub) ==
    LET hits == { i \in 1..Len(subscribers) : SubscriptionEqIn(heap, subscribers[i], sub) }
    IN IF hits = {} THEN 0 ELSE CHOOSE i \in hits : \A j \in hits : i <= j

FindSubscription(subscribers, sub) == FindSubscriptionIn(sessions, subscribers, sub)

\* The QoS of the entry std::find yields for a session, -1 for end().
FoundQos(subscribers, ses) ==
    LET i == FindSubscription(subscribers, [session |-> ses, qos |-> 0])
    IN IF i = 0 THEN -1 ELSE subscribers[i].qos

AddSubscriber_AlwaysPush(subscribers, ses, qos) ==
    Append(subscribers, [session |-> ses, qos |-> qos])

AddSubscriber_UpgradeOnly(subscribers, ses, qos) ==
    LET sub == [session |-> ses, qos |-> qos]
        i == FindSubscription(subscribers, sub)
    IN IF i = 0 THEN Append(subscribers, sub)
       ELSE IF subscribers[i].qos >= qos THEN subscribers
       ELSE [subscribers EXCEPT ![i] = sub]

\* SubscriptionNode::addSubscriber, with the Session objects that exist
\* at the time of the call given as heap.
AddSubscriberIn(heap, subscribers, ses, qos) ==
    LET sub == [session |-> ses, qos |-> qos]
        i == FindSubscriptionIn(heap, subscribers, sub)
    IN IF i = 0 THEN Append(subscribers, sub)
       ELSE [subscribers EXCEPT ![i] = sub]

\* SubscriptionNode::addSubscriber
AddSubscriber(subscribers, ses, qos) == AddSubscriberIn(sessions, subscribers, ses, qos)

\* SubscriptionNode::removeSubscriber
RemoveSubscriber(subscribers, ses) ==
    LET sub == [session |-> ses, qos |-> 0]
        i == FindSubscription(subscribers, sub)
    IN IF i = 0 THEN subscribers
       ELSE SubSeq(subscribers, 1, i - 1) \o SubSeq(subscribers, i + 1, Len(subscribers))

DeepestPath_OneRoot(topic, subtopics) == <<ROOT>> \o subtopics

\* The path of the node getDeepestNode returns.
DeepestPath(topic, subtopics) ==
    <<IF StartsWithDollar(topic) THEN ROOTDOLLAR ELSE ROOT>> \o subtopics

\* A path of the trie stands for an entry of a children map or a set
\* wildcard slot.  An entry whose pointer is null holds NullNode instead
\* of the subscribers of a node.
NullNode == <<[session |-> NoSession, qos |-> 0]>>

NewChildNode_LeftNull == NullNode

\* node.reset(new SubscriptionNode(subtopic)): the entry that was created
\* null points to a node without subscribers.
NewChildNode == <<>>

\* SubscriptionStore::getDeepestNode: the trie after the walk, which
\* default-creates every missing node of the path.
GetDeepestNode(topic, subtopics, T) ==
    LET path == DeepestPath(topic, subtopics)
        walked == { SubSeq(path, 1, i) : i \in 1..Len(path) }
    IN [p \in DOMAIN T \cup walked |-> IF p \in DOMAIN T THEN T[p] ELSE NewChildNode]

\* The assertion 'this_node != nullptr' of publishRecursively fails in some
\* call of the recursion that starts at this_node.
RECURSIVE PublishAssertionFails(_, _, _, _)
PublishAssertionFails(subtopics, cur, this_node, T) ==
    IF cur > Len(subtopics) THEN FALSE
    ELSE IF T[this_node] = NullNode THEN TRUE
    ELSE IF ChildrenMap(T, this_node) = {} /\ ~HasChildrenPlus(T, this_node)
            /\ ~HasChildrenPound(T, this_node)
    THEN FALSE
    ELSE \/ /\ Append(this_node, subtopics[cur]) \in ChildrenMap(T, this_node)
            /\ PublishAssertionFails(subtopics, cur + 1,
                                     Append(this_node, subtopics[cur]), T)
         \/ /\ HasChildrenPlus(T, this_node)
            /\ PublishAssertionFails(subtopics, cur + 1, Append(this_node, "+"), T)

\* SubscriptionStore::publishNonRecursively
PublishNonRecursively(packet, T, node) ==
    LET subscribers == T[node]
        call(i) == IF SessionLock(subscribers[i].session)
                   THEN <<WriteCall(subscribers[i].session, node, packet.topic,
                                    packet.payload, packet.qos, subscribers[i].qos, FALSE)>>
                   ELSE <<>>
    IN Flatten([i \in 1..Len(subscribers) |-> call(i)])

\* SubscriptionStore::publishRecursively
RECURSIVE PublishRecursively(_, _, _, _, _)
PublishRecursively(subtopics, cur, this_node, packet, T) ==
    IF cur > Len(subtopics)
    THEN PublishNonRecursively(packet, T, this_node)
    ELSE IF ChildrenMap(T, this_node) = {} /\ ~HasChildrenPlus(T, this_node)
            /\ ~HasChildrenPound(T, this_node)
    THEN <<>>
    ELSE LET cur_subtop == subtopics[cur]
             sub_node == Append(this_node, cur_subtop)
         IN (IF HasChildrenPound(T, this_node)
             THEN PublishNonRecursively(packet, T, Append(this_node, "#"))
             ELSE <<>>)
            \o (IF sub_node \in ChildrenMap(T, this_node)
                THEN PublishRecursively(subtopics, cur + 1, sub_node, packet, T)
                ELSE <<>>)
            \o (IF HasChildrenPlus(T, this_node)
                THEN PublishRecursively(subtopics, cur + 1, Append(this_node, "+"), packet, T)
                ELSE <<>>)

\* SubscriptionStore::queuePacketAtSubscribers: the writePacket calls made.
QueuePacketAtSubscribers(subtopics, packet, dollar, T) ==
    LET startNode == IF dollar THEN <<ROOTDOLLAR>> ELSE <<ROOT>>
    IN PublishRecursively(subtopics, 1, startNode, packet, T)

\* SubscriptionNode::cleanSubscriptions: its return value at node p, when
\* the Session objects of `heap` are the ones that exist.
RECURSIVE CleanSubscriptionsCount(_, _, _)
CleanSubscriptionsCount(T, p, heap) ==
    LET kids == SetToSeq(ChildPaths(T, p))
        subscribersLeftInChildren ==
            SumSeq([i \in 1..Len(kids) |-> CleanSubscriptionsCount(T, kids[i], heap)])
        left == Cardinality({ i \in 1..Len(T[p]) : T[p][i].session \in DOMAIN heap })
    IN left + subscribersLeftInChildren

\* The vector after the erase loop of cleanSubscriptions.
RECURSIVE DropExpired(_, _)
DropExpired(subscribers, heap) ==
    IF subscribers = <<>> THEN <<>>
    ELSE IF Head(subscribers).session \in DOMAIN heap
         THEN <<Head(subscribers)>> \o DropExpired(Tail(subscribers), heap)
         ELSE DropExpired(Tail(subscribers), heap)

\* SubscriptionNode::cleanSubscriptions called on the node `start`: the
\* trie afterwards.  A child is erased when its own call returned 0.
CleanSubscriptions(T, start, heap) ==
    LET below(p) == Len(p) > Len(start) /\ SubSeq(p, 1, Len(start)) = start
        keep == { p \in DOMAIN T :
                    \/ ~below(p)
                    \/ \A i \in (Len(start)+1)..Len(p) :
                           CleanSubscriptionsCount(T, SubSeq(p, 1, i), heap) > 0 }
    IN [p \in keep |-> IF below(p) \/ p = start
                       THEN DropExpired(T[p], heap) ELSE T[p]]

\* ------------------------------------------------------- retained tree
\* RetainedMessage::operator== (and its hash): messages are keyed by topic.
RetainedMessageEq(a, b) == a.topic = b.topic

AddPayload_NoErase(retainedMessages, topic, payload, qos, totalCount) ==
    LET rm == [topic |-> topic, payload |-> payload, qos |-> qos]
        erased == { m \in retainedMessages : ~RetainedMessageEq(m, rm) }
    IN IF payload = ""
       THEN [msgs |-> erased,
             count |-> totalCount + (Cardinality(erased) - Cardinality(retainedMessages))]
       ELSE [msgs |-> retainedMessages \cup {rm},
             count |-> totalCount
                + (Cardinality(retainedMessages \cup {rm}) - Cardinality(retainedMessages))]

AddPayload_CountEveryInsert(retainedMessages, topic, payload, qos, totalCount) ==
    LET rm == [topic |-> topic, payload |-> payload, qos |-> qos]
        erased == { m \in retainedMessages : ~RetainedMessageEq(m, rm) }
    IN IF payload = ""
       THEN [msgs |-> erased,
             count |-> totalCount + (Cardinality(erased) - Cardinality(retainedMessages))]
       ELSE [msgs |-> erased \cup {rm}, count |-> totalCount + 1]

\* RetainedMessageNode::addPayload: the node's set and the total count.
\* diffCount is computed in size_t and stored in an int64_t; the wrap of
\* the unsigned subtraction is undone by the conversion, so it is the
\* signed difference.
AddPayload(retainedMessages, topic, payload, qos, totalCount) ==
    LET countBefore == Cardinality(retainedMessages)
        rm == [topic |-> topic, payload |-> payload, qos |-> qos]
        retained_found == \E m \in retainedMessages : RetainedMessageEq(m, rm)
        erased == { m \in retainedMessages : ~RetainedMessageEq(m, rm) }
        inserted == erased \cup {rm}
    IN IF ~retained_found /\ payload = ""
       THEN [msgs |-> retainedMessages, count |-> totalCount]
       ELSE IF retained_found /\ payload = ""
       THEN [msgs |-> erased,
             count |-> totalCount + (Cardinality(erased) - countBefore)]
       ELSE [msgs |-> inserted,
             count |-> totalCount + (Cardinality(inserted) - countBefore)]

\* The start node chosen by setRetainedMessage / giveClientRetainedMessages.
RetainedStartNode(subtopics) ==
    IF subtopics # <<>> /\ subtopics[1] \in DollarTokens
    THEN <<RETAINEDROOTDOLLAR>> ELSE <<RETAINEDROOT>>

\* SubscriptionStore::setRetainedMessage: tree and count afterwards.
SetRetainedMessageResult(topic, subtopics, payload, qos, R, totalCount) ==
    LET path == RetainedStartNode(subtopics) \o subtopics
        walked == { SubSeq(path, 1, i) : i \in 1..Len(path) }
        R1 == [p \in DOMAIN R \cup walked |-> IF p \in DOMAIN R THEN R[p] ELSE {}]
        res == AddPayload(R1[path], topic, payload, qos, totalCount)
    IN [tree |-> [R1 EXCEPT ![path] = res.msgs], count |-> res.count]

\* SubscriptionStore::giveClientRetainedMessagesRecursively: the
\* writePacket calls it makes (children are visited in map order).
RECURSIVE GiveClientRetainedMessagesRecursively(_, _, _, _, _, _, _)
GiveClientRetainedMessagesRecursively(subtopics, cur, this_node, max_qos, ses, poundMode, R) ==
    LET kids == SetToSeq(ChildPaths(R, this_node))
    IN
    IF cur > Len(subtopics)
    THEN LET rms == SetToSeq(R[this_node])
         IN [i \in 1..Len(rms) |->
                WriteCall(ses, this_node, rms[i].topic, rms[i].payload,
                          rms[i].qos, max_qos, TRUE)]
            \o (IF poundMode
                THEN Flatten([i \in 1..Len(kids) |->
                        GiveClientRetainedMessagesRecursively(
                            subtopics, cur, kids[i], max_qos, ses, poundMode, R)])
                ELSE <<>>)
    ELSE LET cur_subtop == subtopics[cur]
             poundFound == cur_subtop = "#"
         IN IF poundFound \/ cur_subtop = "+"
            THEN Flatten([i \in 1..Len(kids) |->
                    GiveClientRetainedMessagesRecursively(
                        subtopics, cur + 1, kids[i], max_qos, ses, poundFound, R)])
            ELSE IF Append(this_node, cur_subtop) \in DOMAIN R
                 THEN GiveClientRetainedMessagesRecursively(
                        subtopics, cur + 1, Append(this_node, cur_subtop),
                        max_qos, ses, FALSE, R)
                 ELSE <<>>

\* SubscriptionStore::giveClientRetainedMessages
GiveClientRetainedMessages(ses, subscribeSubtopics, max_qos, R) ==
    GiveClientRetainedMessagesRecursively(
        subscribeSubtopics, 1, RetainedStartNode(subscribeSubtopics),
        max_qos, ses, FALSE, R)

\* --------------------------------------------------------------- state
\* A snapshot file that was never written: opening it for reading throws
\* PersistenceFileCantBeOpened.
NoFile == [exists |-> FALSE, data |-> <<>>]

NoThread == 0

\* A reader-writer lock nobody holds.
UnlockedRwlock == [writer |-> NoThread, readers |-> {}]

\* A worker thread that is in no call of the store.
IdleThread == [op |-> "idle", pc |-> 0]

NoLast ==
    [op |-> "none", conn |-> NoClient, clientid |-> "", topic |-> <<>>,
     payload |-> "", qos |-> 0, clean |-> FALSE, session |-> NoSession,
     kicked |-> NoClient, prev |-> -1, calls |-> <<>>, flushed |-> <<>>,
     prior |-> NoSession, present |-> FALSE, error |-> "none"]

StoreInit ==
    /\ clients = <<>>
    /\ clients_by_fd = [w \in Workers |-> {}]
    /\ sessionsById = [k \in ClientIds |-> NoSession]
    /\ sessions = <<>>
    /\ subs = [p \in {<<ROOT>>, <<ROOTDOLLAR>>} |-> <<>>]
    /\ retained = [p \in {<<RETAINEDROOT>>, <<RETAINEDROOTDOLLAR>>} |-> {}]
    /\ retainedMessageCount = 0
    /\ now = 0
    /\ last = NoLast
    /\ retainedMessagesFile = NoFile
    /\ sessionsFile = NoFile
    /\ threads = [w \in Workers |-> IdleThread]
    /\ subscriptionsRwlock = UnlockedRwlock
    /\ retainedMessagesRwlock = UnlockedRwlock

\* ----------------------------------------------------- Authentication
\* Every worker's ThreadData owns one Authentication; the worker's thread
\* is the only caller of its methods except setQuitting.  A call of a
\* plugin function is two steps, its entry and its return, so that the
\* threads that are inside the plugin at one time are visible: the pc of a
\* worker names the plugin function its thread is inside ("init",
\* "security_init", "security_cleanup", "cleanup", "acl_check",
\* "unpwd_check") or the lock() it is about to take ("init_lock",
\* "security_init_lock").

AuthResults == {"success", "acl_denied", "login_denied", "error"}

PluginPaths == {"", "plugin.so"}
PasswordFiles == {"", "passwd"}
Usernames == {"u", "v"}
Passwords == {"p", "ps"}
Salts == {"s", "ss"}
PluginReturns == {0, 1}       \* return values of the lifecycle functions

\* std::mutex that no thread holds
Unlocked == 0

AllSettings ==
    [authPluginPath : PluginPaths,
     authPluginSerializeInit : BOOLEAN,
     authPluginSerializeAuthChecks : BOOLEAN,
     mosquittoPasswordFile : PasswordFiles,
     allowAnonymous : BOOLEAN]

DefaultSettings ==
    [authPluginPath |-> "", authPluginSerializeInit |-> FALSE,
     authPluginSerializeAuthChecks |-> FALSE, mosquittoPasswordFile |-> "",
     allowAnonymous |-> FALSE]

Digest_OfSaltOnly(password, salt) == salt

\* SHA-512 over the password bytes followed by the salt bytes: the digest
\* stands for the byte string it was computed from, so distinct byte
\* strings have distinct digests.
Digest(password, salt) == password \o salt

\* A line of the password file that parses: username:$6$salt$digest, the
\* digest computed from the password given.
PasswordLine(username, salt, password) ==
    [wellFormed |-> TRUE, username |-> username, salt |-> salt,
     cryptedPassword |-> Digest(password, salt)]

\* A line for which the parsing throws.
MalformedLine ==
    [wellFormed |-> FALSE, username |-> "", salt |-> "", cryptedPassword |-> ""]

\* The loop over the lines from line i on: a line that throws is dropped,
\* emplace keeps the first entry of a username.
RECURSIVE ParsePasswordLines(_, _, _)
ParsePasswordLines(lines, i, table) ==
    IF i > Len(lines) THEN table
    ELSE LET line == lines[i]
             emplaced == line.wellFormed /\ \A e \in table : e.username # line.username
         IN ParsePasswordLines(lines, i + 1,
               IF emplaced
               THEN table \cup {[username |-> line.username, salt |-> line.salt,
                                 cryptedPassword |-> line.cryptedPassword]}
               ELSE table)

\* if (ctime.tv_sec == this->mosquittoPasswordFileLastLoad.tv_sec) return;
CtimeUnchanged(ctime, lastLoad) == ctime.tv_sec = lastLoad.tv_sec

NoRet ==
    [op |-> "none", firstResult |-> "none", pluginCalled |-> FALSE,
     pluginResult |-> "none", result |-> "none"]

\* Authentication::Authentication
NewAuthentication ==
    [useExternalPlugin |-> FALSE, initialized |-> FALSE, quitting |-> FALSE,
     cleanup_v2 |-> FALSE,
     mosquittoPasswordEntries |-> [loaded |-> FALSE, table |-> {}],
     mosquittoPasswordFileLastLoad |-> [tv_sec |-> 0, tv_nsec |-> 0],
     pc |-> "constructed", reloading |-> FALSE,
     reloadFailed |-> FALSE,   \* history: the last reload ended in an error
     initDone |-> FALSE,       \* history: init_v2 ran and returned zero
     securityInitDone |-> FALSE,  \* history: the last security_init_v2
                               \* returned zero and security_cleanup_v2 was
                               \* not called since
     loadCall |-> <<>>,        \* history: readability and ctime of the file
                               \* at the last call of loadMosquittoPasswordFile
     quitSeen |-> "none",      \* history: "waiting" when setQuitting found the
                               \* thread blocked on initMutex, "skipped" once
                               \* that call has returned without the plugin
     ret |-> NoRet]            \* history: the last check and what it returned

AuthInit(S) ==
    /\ settings \in S
    /\ authPlugin = [w \in Workers |-> NewAuthentication]
    /\ initMutex = Unlocked
    /\ authChecksMutex = Unlocked

\* The state after construction; no plugin and no password file are
\* configured.
Init == StoreInit /\ AuthInit({DefaultSettings})

\* Session ids that some reference still names; a new Session object
\* gets an id none of them uses.
ReferencedSessions ==
    DOMAIN sessions
    \cup UNION { { subs[p][i].session : i \in 1..Len(subs[p]) } : p \in DOMAIN subs }
    \cup { clients[c].session : c \in DOMAIN clients }

FreeSessionIds == SessionIds \ ReferencedSessions

\* new Session(): lastTouched is the time of construction.
NewSession ==
    [client_id |-> "", client |-> NoClient, lastTouched |-> now, pending |-> <<>>]

\* Session::writePacket for the calls from entry i on: a copy whose QoS is
\* above 0 joins the pending queue of the session it is written to.
RECURSIVE WritePackets(_, _, _)
WritePackets(heap, calls, i) ==
    IF i > Len(calls) THEN heap
    ELSE LET call == calls[i]
             queued == [topic |-> call.topic, payload |-> call.payload,
                        qos |-> call.qos, retain |-> call.retain]
         IN WritePackets(IF call.qos > 0
                         THEN [heap EXCEPT ![call.session].pending = Append(@, queued)]
                         ELSE heap,
                         calls, i + 1)

\* The pending queues stay within the bound of the model.
PendingWithinBound(heap) == \A s \in DOMAIN heap : Len(heap[s].pending) <= MaxPending

SendPendingQosMessages_Nothing(heap, s) == <<>>

\* Session::sendPendingQosMessages: every queued packet is written to the
\* connection just assigned.
SendPendingQosMessages(heap, s) == heap[s].pending

NeedsFreshSession_OnlyWhenMissing(found, clean) == found = NoSession

\* if (!session || client->getCleanSession())
NeedsFreshSession(found, clean) == found = NoSession \/ clean

Restrict(f, D) == [x \in D |-> f[x]]
Extend(f, x, v) == [y \in DOMAIN f \cup {x} |-> IF y = x THEN v ELSE f[y]]

NonRootNodes(T) == { p \in DOMAIN T : Len(p) > 1 }

\* ---------------------------------------------------------------- locks
\* RWLockGuard over a pthread rwlock: rdlock() is granted when no writer
\* holds the lock, wrlock() when nobody holds it; unlock() and the
\* destructor of the guard give up what the guard's thread holds.
CanRdlock(l) == l.writer = NoThread
CanWrlock(l) == l.writer = NoThread /\ l.readers = {}
Rdlock(l, w) == [l EXCEPT !.readers = @ \cup {w}]
Wrlock(l, w) == [l EXCEPT !.writer = w]
RwUnlock(l, w) ==
    [writer |-> IF l.writer = w THEN NoThread ELSE l.writer,
     readers |-> l.readers \ {w}]
HoldsRwlock(l, w) == l.writer = w \/ w \in l.readers

\* No worker thread is inside a call of the store.
AllReturned == \A w \in Workers : threads[w] = IdleThread

\* One lock operation of a store call.
LockOp(do, lock) == [do |-> do, lock |-> lock]

\* The lock operations of each store call, in the order the call makes
\* them.  A call that leaves without unlock() releases in the destructor
\* of its guard.
RegisterLocks ==
    <<LockOp("wrlock", "subscriptions"), LockOp("unlock", "subscriptions")>>

AddSubscriptionLocks_RetainedFirst ==
    <<LockOp("rdlock", "retained"), LockOp("wrlock", "subscriptions"),
      LockOp("unlock", "subscriptions"), LockOp("unlock", "retained")>>

\* addSubscription for a client with a session: giveClientRetainedMessages
\* runs, and returns, inside the write lock of the trie.
AddSubscriptionLocks ==
    <<LockOp("wrlock", "subscriptions"), LockOp("rdlock", "retained"),
      LockOp("unlock", "retained"), LockOp("unlock", "subscriptions")>>

\* addSubscription for a client without a session
AddSubscriptionNoSessionLocks ==
    <<LockOp("wrlock", "subscriptions"), LockOp("unlock", "subscriptions")>>

RemoveSubscriptionLocks ==
    <<LockOp("wrlock", "subscriptions"), LockOp("unlock", "subscriptions")>>

SessionPresentLocks ==
    <<LockOp("rdlock", "subscriptions"), LockOp("unlock", "subscriptions")>>

QueuePacketAtSubscribersLocks ==
    <<LockOp("rdlock", "subscriptions"), LockOp("unlock", "subscriptions")>>

SetRetainedMessageLocks ==
    <<LockOp("wrlock", "retained"), LockOp("unlock", "retained")>>

\* A PUBLISH with the retain flag: setRetainedMessage, then
\* queuePacketAtSubscribers.
PublishLocks == SetRetainedMessageLocks \o QueuePacketAtSubscribersLocks

RemoveExpiredSessionsClientsLocks ==
    <<LockOp("wrlock", "subscriptions"), LockOp("unlock", "subscriptions")>>

SaveRetainedMessagesLocks ==
    <<LockOp("rdlock", "retained"), LockOp("unlock", "retained")>>

SaveSessionsAndSubscriptionsLocks ==
    <<LockOp("rdlock", "subscriptions"), LockOp("unlock", "subscriptions")>>

StoreCalls ==
    {"register", "addSubscription", "addSubscriptionNoSession",
     "removeSubscription", "sessionPresent", "publish",
     "removeExpiredSessionsClients", "saveRetainedMessages",
     "saveSessionsAndSubscriptions"}

LockProgram(op) ==
    CASE op = "register" -> RegisterLocks
      [] op = "addSubscription" -> AddSubscriptionLocks
      [] op = "addSubscriptionNoSession" -> AddSubscriptionNoSessionLocks
      [] op = "removeSubscription" -> RemoveSubscriptionLocks
      [] op = "sessionPresent" -> SessionPresentLocks
      [] op = "publish" -> PublishLocks
      [] op = "removeExpiredSessionsClients" -> RemoveExpiredSessionsClientsLocks
      [] op = "saveRetainedMessages" -> SaveRetainedMessagesLocks
      [] op = "saveSessionsAndSubscriptions" -> SaveSessionsAndSubscriptionsLocks
      [] OTHER -> <<>>

\* The lock operation the thread of worker w makes next.
NextLockOp(w) == LockProgram(threads[w].op)[threads[w].pc]

RwlockOf(name) ==
    IF name = "subscriptions" THEN subscriptionsRwlock ELSE retainedMessagesRwlock

\* The thread's position after its lock operation.
Advance(w) ==
    [threads EXCEPT ![w] =
        IF threads[w].pc = Len(LockProgram(threads[w].op)) THEN IdleThread
        ELSE [op |-> threads[w].op, pc |-> threads[w].pc + 1]]

\* The thread of worker w enters a call of the store.
Call(w, op) ==
    /\ threads[w] = IdleThread
    /\ threads' = [threads EXCEPT ![w] = [op |-> op, pc |-> 1]]
    /\ UNCHANGED <<storeVars, authVars, fileVars, subscriptionsRwlock,
                   retainedMessagesRwlock>>

\* RWLockGuard::rdlock / wrlock returns: the thread has the lock.
Acquire(w) ==
    /\ threads[w] # IdleThread
    /\ LET op == NextLockOp(w)
           l == RwlockOf(op.lock)
           locked == IF op.do = "wrlock" THEN Wrlock(l, w) ELSE Rdlock(l, w)
       IN /\ op.do \in {"rdlock", "wrlock"}
          /\ IF op.do = "wrlock" THEN CanWrlock(l) ELSE CanRdlock(l)
          /\ IF op.lock = "subscriptions"
             THEN subscriptionsRwlock' = locked /\ UNCHANGED retainedMessagesRwlock
             ELSE retainedMessagesRwlock' = locked /\ UNCHANGED subscriptionsRwlock
    /\ threads' = Advance(w)
    /\ UNCHANGED <<storeVars, authVars, fileVars>>

\* RWLockGuard::unlock, or the destructor of the guard.
Release(w) ==
    /\ threads[w] # IdleThread
    /\ LET op == NextLockOp(w)
       IN /\ op.do = "unlock"
          /\ IF op.lock = "subscriptions"
             THEN /\ subscriptionsRwlock' = RwUnlock(subscriptionsRwlock, w)
                  /\ UNCHANGED retainedMessagesRwlock
             ELSE /\ retainedMessagesRwlock' = RwUnlock(retainedMessagesRwlock, w)
                  /\ UNCHANGED subscriptionsRwlock
    /\ threads' = Advance(w)
    /\ UNCHANGED <<storeVars, authVars, fileVars>>

\* ------------------------------------------------------------- actions
\* ThreadData::giveClient: a worker takes an accepted connection.
GiveClient(c) ==
    /\ c \in Conns
    /\ c = Cardinality(DOMAIN clients) + 1
    /\ LET w == IF c % 2 = 1 THEN 1 ELSE 2
       IN /\ clients' = Extend(clients, c,
                [clientid |-> "", session |-> NoSession,
                 disconnecting |-> FALSE, readyForDisconnect |-> FALSE,
                 threadData |-> w])
          /\ clients_by_fd' = [clients_by_fd EXCEPT ![w] = @ \cup {c}]
          /\ last' = [NoLast EXCEPT !.op = "giveClient"]
    /\ UNCHANGED <<authVars, fileVars, lockVars, sessionsById, sessions, subs, retained, retainedMessageCount, now>>

\* ThreadData::removeClient(int fd): the worker closes a connection.
RemoveClientFd(c) ==
    /\ c \in DOMAIN clients
    /\ c \in clients_by_fd[clients[c].threadData]
    /\ clients' = [clients EXCEPT ![c].disconnecting = TRUE]
    /\ clients_by_fd' = [clients_by_fd EXCEPT ![clients[c].threadData] = @ \ {c}]
    /\ last' = [NoLast EXCEPT !.op = "removeClient"]
    /\ UNCHANGED <<authVars, fileVars, lockVars, sessionsById, sessions, subs, retained, retainedMessageCount, now>>

RemoveClientTable_Forgotten(cl) == clients_by_fd

\* ThreadData::removeClient(Client_p), called with the kicked client cl
\* (NoClient: the call is not made): the client table afterwards.
RemoveClientTable(cl) ==
    IF cl = NoClient THEN clients_by_fd
    ELSE [clients_by_fd EXCEPT ![clients[cl].threadData] = @ \ {cl}]

KickedClients_Unmarked(cl) == clients

\* setReadyForDisconnect, removeClient's and the caller's markAsDisconnecting
KickedClients(cl) ==
    IF cl = NoClient THEN clients
    ELSE [clients EXCEPT ![cl].disconnecting = TRUE, ![cl].readyForDisconnect = TRUE]

ThrowsProtocolError_Never(id) == FALSE

\* client->getClientId().empty(): the call throws ProtocolError.
ThrowsProtocolError(id) == id = ""

\* SubscriptionStore::registerClientAndKickExistingOne for a connection
\* whose CONNECT carried client-id `id` and clean-session flag `clean`.
\* The guard takes subscriptionsRwlock for writing in the first statement
\* and gives it up when the call returns or throws.
RegisterClientAndKickExistingOne(c, id, clean) ==
    /\ c \in DOMAIN clients /\ ClientAlive(c)
    /\ clients[c].clientid = ""          \* the connection's first CONNECT
    /\ CanWrlock(subscriptionsRwlock)
    /\ subscriptionsRwlock' =
          RwUnlock(Wrlock(subscriptionsRwlock, clients[c].threadData),
                   clients[c].threadData)
    /\ IF ThrowsProtocolError(id)
       THEN /\ last' = [NoLast EXCEPT !.op = "register", !.conn = c,
                           !.clientid = id, !.clean = clean,
                           !.error = "ProtocolError"]
            /\ UNCHANGED <<clients, clients_by_fd, sessionsById, sessions>>
       ELSE
       LET found == IF id \in DOMAIN sessionsById THEN sessionsById[id] ELSE NoSession
           cl == IF found # NoSession THEN MakeSharedClient(found) ELSE NoClient
           fresh == NeedsFreshSession(found, clean)
       IN /\ fresh => FreeSessionIds \ {found} # {}
          /\ LET session == IF fresh
                            THEN CHOOSE n \in FreeSessionIds \ {found} :
                                    \A m \in FreeSessionIds \ {found} : n <= m
                            ELSE found
                 \* sessionsById[id] = session drops the registry's reference
                 \* to the prior Session object, which ends its life
                 heap1 == IF fresh
                          THEN Extend(Restrict(sessions, DOMAIN sessions \ {found}),
                                      session, NewSession)
                          ELSE sessions
             IN /\ sessionsById' = Extend(sessionsById, id, session)
                /\ sessions' = [heap1 EXCEPT ![session].client = c,
                                             ![session].client_id = id]
                /\ clients' = [KickedClients(cl) EXCEPT
                                  ![c].clientid = id,
                                  ![c].session = session]
                /\ clients_by_fd' = RemoveClientTable(cl)
                /\ last' = [NoLast EXCEPT !.op = "register", !.conn = c,
                               !.clientid = id, !.clean = clean,
                               !.session = session, !.kicked = cl,
                               !.prior = found,
                               !.flushed = SendPendingQosMessages(heap1, session)]
    /\ UNCHANGED <<authVars, fileVars, threads, retainedMessagesRwlock,
                   subs, retained, retainedMessageCount, now>>

\* The value SubscriptionStore::sessionPresent returns.
SessionPresentResult(id) == sessionsById[id] # NoSession

\* The session-present flag of the CONNACK: the CONNECT handler asks
\* sessionPresent only for a connection that does not want a clean session.
ConnackSessionPresent(id, clean) == ~clean /\ SessionPresentResult(id)

Touch_Nothing(heap, s) == heap

\* Session::touch(): the last-touch time becomes the current time.
Touch(heap, s) == [heap EXCEPT ![s].lastTouched = now]

\* SubscriptionStore::sessionPresent
SessionPresent(id) ==
    /\ sessions' = IF sessionsById[id] # NoSession
                   THEN Touch(sessions, sessionsById[id])
                   ELSE sessions
    /\ last' = [NoLast EXCEPT !.op = "sessionPresent", !.clientid = id,
                   !.present = SessionPresentResult(id),
                   !.prev = IF sessionsById[id] # NoSession
                            THEN sessions[sessionsById[id]].lastTouched ELSE -1]
    /\ UNCHANGED <<authVars, fileVars, lockVars, clients, clients_by_fd, sessionsById, subs, retained,
                   retainedMessageCount, now>>

\* SubscriptionStore::addSubscription
AddSubscription(c, topic, qos) ==
    /\ c \in DOMAIN clients /\ ClientAlive(c) /\ clients[c].clientid # ""
    /\ CanWrlock(subscriptionsRwlock)
    /\ sessionsById[clients[c].clientid] # NoSession =>
          CanRdlock(retainedMessagesRwlock)
    /\ LET T1 == GetDeepestNode(topic, topic, subs)
           deepestNode == DeepestPath(topic, topic)
           ses == sessionsById[clients[c].clientid]
       IN /\ Cardinality(NonRootNodes(T1)) <= MaxTrieNodes
          /\ subs' = IF ses # NoSession
                     THEN [T1 EXCEPT ![deepestNode] = AddSubscriber(@, ses, qos)]
                     ELSE T1
          /\ LET calls == IF ses # NoSession
                          THEN GiveClientRetainedMessages(ses, topic, qos, retained)
                          ELSE <<>>
             IN /\ sessions' = WritePackets(sessions, calls, 1)
                /\ PendingWithinBound(sessions')
                /\ last' = [NoLast EXCEPT !.op = "addSubscription", !.topic = topic,
                               !.qos = qos, !.session = ses,
                               !.prev = IF ses # NoSession
                                        THEN FoundQos(T1[deepestNode], ses) ELSE -1,
                               !.calls = calls]
    /\ UNCHANGED <<authVars, fileVars, lockVars, clients, clients_by_fd, sessionsById, retained,
                   retainedMessageCount, now>>

\* SubscriptionStore::removeSubscription
RemoveSubscription(c, topic) ==
    /\ c \in DOMAIN clients /\ ClientAlive(c) /\ clients[c].clientid # ""
    /\ CanWrlock(subscriptionsRwlock)
    /\ LET deepestNode == DeepestPath(topic, topic)
           ses == sessionsById[clients[c].clientid]
       IN /\ subs' = IF deepestNode \in DOMAIN subs /\ ses # NoSession
                     THEN [subs EXCEPT ![deepestNode] = RemoveSubscriber(@, ses)]
                     ELSE subs
          /\ last' = [NoLast EXCEPT !.op = "removeSubscription"]
    /\ UNCHANGED <<authVars, fileVars, lockVars, clients, clients_by_fd, sessionsById, sessions, retained,
                   retainedMessageCount, now>>

\* The dollar argument the PUBLISH handler passes for a topic.
DollarArgument(topic) == StartsWithDollar(topic)

\* A PUBLISH of the topic reaches queuePacketAtSubscribers.
Publish(topic, payload, qos) ==
    /\ CanRdlock(subscriptionsRwlock)
    /\ LET calls == QueuePacketAtSubscribers(topic,
                        [topic |-> topic, payload |-> payload, qos |-> qos],
                        DollarArgument(topic), subs)
       IN /\ sessions' = WritePackets(sessions, calls, 1)
          /\ PendingWithinBound(sessions')
          /\ last' = [NoLast EXCEPT !.op = "publish", !.topic = topic,
                         !.payload = payload, !.qos = qos, !.calls = calls]
    /\ UNCHANGED <<authVars, fileVars, lockVars, clients, clients_by_fd, sessionsById, subs, retained,
                   retainedMessageCount, now>>

\* SubscriptionStore::removeSession: erases sessionsById.begin(), whichever
\* entry the unordered_map iterates first.
RemoveSession(clientid) ==
    /\ CanWrlock(subscriptionsRwlock)
    /\ IF \A k \in ClientIds : sessionsById[k] = NoSession
       THEN UNCHANGED <<sessionsById, sessions>>
       ELSE \E k \in ClientIds :
               /\ sessionsById[k] # NoSession
               /\ sessionsById' = [sessionsById EXCEPT ![k] = NoSession]
               /\ sessions' = Restrict(sessions, DOMAIN sessions \ {sessionsById[k]})
    /\ last' = [NoLast EXCEPT !.op = "removeSession"]
    /\ UNCHANGED <<authVars, fileVars, lockVars, clients, clients_by_fd, subs, retained, retainedMessageCount, now>>

\* The subscription loop of loadSessionsAndSubscriptions from entry i on:
\* getDeepestNode runs for every entry, addSubscriber for the entries whose
\* client-id the registry holds.
RECURSIVE LoadSubscriptions(_, _, _, _, _)
LoadSubscriptions(loaded, i, T, byId, heap) ==
    IF i > Len(loaded) THEN T
    ELSE LET sub == loaded[i]
             T1 == GetDeepestNode(sub.topic, sub.topic, T)
             node == DeepestPath(sub.topic, sub.topic)
             T2 == IF byId[sub.clientId] # NoSession
                   THEN [T1 EXCEPT ![node] =
                            AddSubscriberIn(heap, @, byId[sub.clientId], sub.qos)]
                   ELSE T1
         IN LoadSubscriptions(loaded, i + 1, T2, byId, heap)

\* SubscriptionStore::loadSessionsAndSubscriptions for a file that holds
\* sessions for the client-ids loadedSessions and the subscription entries
\* loadedSubscriptions.  Assigning a loaded session to sessionsById[k] drops
\* the registry's reference to the session it held before.
LoadSessionsAndSubscriptions(loadedSessions, loadedSubscriptions) ==
    LET ids == SetToSeq(loadedSessions)
        free == SetToSeq(FreeSessionIds)
        replaced == { sessionsById[k] : k \in loadedSessions } \ {NoSession}
    IN /\ CanWrlock(subscriptionsRwlock)
       /\ Len(free) >= Len(ids)
       /\ LET idx(k) == CHOOSE i \in 1..Len(ids) : ids[i] = k
              byId == [k \in ClientIds |->
                          IF k \in loadedSessions THEN free[idx(k)] ELSE sessionsById[k]]
              kept == Restrict(sessions, DOMAIN sessions \ replaced)
              heap == [s \in DOMAIN kept \cup { byId[k] : k \in loadedSessions } |->
                          IF s \in DOMAIN kept THEN kept[s]
                          ELSE [NewSession EXCEPT
                                  !.client_id = CHOOSE k \in loadedSessions : byId[k] = s]]
              T == LoadSubscriptions(loadedSubscriptions, 1, subs, byId, heap)
          IN /\ Cardinality(NonRootNodes(T)) <= MaxTrieNodes
             /\ sessionsById' = byId
             /\ sessions' = heap
             /\ subs' = T
       /\ last' = [NoLast EXCEPT !.op = "loadSessionsAndSubscriptions"]
       /\ UNCHANGED <<authVars, fileVars, lockVars, clients, clients_by_fd, retained, retainedMessageCount, now>>

\* Session::hasExpired
HasExpired(s, expireAfterSeconds) == sessions[s].lastTouched + expireAfterSeconds < now

\* SubscriptionStore::removeExpiredSessionsClients
RemoveExpiredSessionsClients(expireSessionsAfterSeconds) ==
    LET expired == { k \in ClientIds : sessionsById[k] # NoSession
                        /\ HasExpired(sessionsById[k], expireSessionsAfterSeconds) }
        heap == Restrict(sessions, DOMAIN sessions \ { sessionsById[k] : k \in expired })
    IN /\ CanWrlock(subscriptionsRwlock)
       /\ sessionsById' = [k \in ClientIds |->
                              IF k \in expired THEN NoSession ELSE sessionsById[k]]
       /\ sessions' = heap
       /\ subs' = CleanSubscriptions(subs, <<ROOT>>, heap)
       /\ last' = [NoLast EXCEPT !.op = "removeExpiredSessionsClients"]
       /\ UNCHANGED <<authVars, fileVars, lockVars, clients, clients_by_fd, retained, retainedMessageCount, now>>

\* The steady clock advances.
Tick ==
    /\ now < MaxTime
    /\ now' = now + 1
    /\ last' = [NoLast EXCEPT !.op = "tick"]
    /\ UNCHANGED <<authVars, fileVars, lockVars, clients, clients_by_fd, sessionsById, sessions, subs, retained,
                   retainedMessageCount>>

\* SubscriptionStore::setRetainedMessage
SetRetainedMessage(topic, payload, qos) ==
    /\ LET r == SetRetainedMessageResult(topic, topic, payload, qos,
                                         retained, retainedMessageCount)
       IN /\ Cardinality(NonRootNodes(r.tree)) <= MaxRetainedNodes
          /\ retained' = r.tree
          /\ retainedMessageCount' = r.count
    /\ last' = [NoLast EXCEPT !.op = "setRetainedMessage", !.topic = topic,
                   !.payload = payload, !.qos = qos]
    /\ UNCHANGED <<authVars, fileVars, lockVars, clients, clients_by_fd, sessionsById, sessions, subs, now>>

\* -------------------------------------------- store calls, lock by lock
\* A worker thread inside addSubscription or inside the handling of a
\* retained PUBLISH: the call, the lock operation it makes next (its place
\* in AddSubscriptionLocks / PublishLocks) and the arguments of the call.
CallFrame(op, pc, conn, topic, payload, qos) ==
    [op |-> op, pc |-> pc, conn |-> conn, topic |-> topic, payload |-> payload,
     qos |-> qos]

\* addSubscription up to the call of giveClientRetainedMessages: the write
\* lock of the trie, getDeepestNode, addSubscriber.
AddSubscriptionWrlock(c, topic, qos) ==
    /\ c \in DOMAIN clients /\ ClientAlive(c) /\ clients[c].clientid # ""
    /\ threads[clients[c].threadData] = IdleThread
    /\ CanWrlock(subscriptionsRwlock)
    /\ LET w == clients[c].threadData
           T1 == GetDeepestNode(topic, topic, subs)
           deepestNode == DeepestPath(topic, topic)
           ses == sessionsById[clients[c].clientid]
       IN /\ Cardinality(NonRootNodes(T1)) <= MaxTrieNodes
          /\ subscriptionsRwlock' = Wrlock(subscriptionsRwlock, w)
          /\ subs' = IF ses # NoSession
                     THEN [T1 EXCEPT ![deepestNode] = AddSubscriber(@, ses, qos)]
                     ELSE T1
          /\ threads' = [threads EXCEPT ![w] =
                CallFrame("addSubscription", IF ses # NoSession THEN 2 ELSE 4,
                          c, topic, "", qos)]
          /\ last' = [NoLast EXCEPT !.op = "addSubscription", !.topic = topic,
                         !.qos = qos, !.session = ses,
                         !.prev = IF ses # NoSession
                                  THEN FoundQos(T1[deepestNode], ses) ELSE -1]
    /\ UNCHANGED <<authVars, fileVars, retainedMessagesRwlock, clients, clients_by_fd,
                   sessionsById, sessions, retained, retainedMessageCount, now>>

\* giveClientRetainedMessages inside addSubscription: the read lock of the
\* retained tree, and the replay of what the tree holds at that moment.
GiveClientRetainedMessagesRdlock(w) ==
    /\ threads[w].op = "addSubscription" /\ threads[w].pc = 2
    /\ CanRdlock(retainedMessagesRwlock)
    /\ LET f == threads[w]
           ses == sessionsById[clients[f.conn].clientid]
           calls == GiveClientRetainedMessages(ses, f.topic, f.qos, retained)
       IN /\ sessions' = WritePackets(sessions, calls, 1)
          /\ PendingWithinBound(sessions')
          /\ last' = [NoLast EXCEPT !.op = "giveClientRetainedMessages",
                         !.topic = f.topic, !.qos = f.qos, !.session = ses,
                         !.calls = calls]
    /\ retainedMessagesRwlock' = Rdlock(retainedMessagesRwlock, w)
    /\ threads' = [threads EXCEPT ![w].pc = 3]
    /\ UNCHANGED <<authVars, fileVars, subscriptionsRwlock, clients, clients_by_fd,
                   sessionsById, subs, retained, retainedMessageCount, now>>

\* giveClientRetainedMessages returns: its guard releases the read lock.
GiveClientRetainedMessagesReturn(w) ==
    /\ threads[w].op = "addSubscription" /\ threads[w].pc = 3
    /\ retainedMessagesRwlock' = RwUnlock(retainedMessagesRwlock, w)
    /\ threads' = [threads EXCEPT ![w].pc = 4]
    /\ UNCHANGED <<storeVars, authVars, fileVars, subscriptionsRwlock>>

\* lock_guard.unlock() at the end of addSubscription
AddSubscriptionUnlock(w) ==
    /\ threads[w].op = "addSubscription" /\ threads[w].pc = 4
    /\ subscriptionsRwlock' = RwUnlock(subscriptionsRwlock, w)
    /\ threads' = [threads EXCEPT ![w] = IdleThread]
    /\ UNCHANGED <<storeVars, authVars, fileVars, retainedMessagesRwlock>>

\* A worker starts on a PUBLISH with the retain flag: setRetainedMessage
\* comes first, under the write lock of the retained tree.
SetRetainedMessageWrlock(w, topic, payload, qos) ==
    /\ threads[w] = IdleThread
    /\ CanWrlock(retainedMessagesRwlock)
    /\ LET r == SetRetainedMessageResult(topic, topic, payload, qos,
                                         retained, retainedMessageCount)
       IN /\ Cardinality(NonRootNodes(r.tree)) <= MaxRetainedNodes
          /\ retained' = r.tree
          /\ retainedMessageCount' = r.count
    /\ retainedMessagesRwlock' = Wrlock(retainedMessagesRwlock, w)
    /\ threads' = [threads EXCEPT ![w] =
          CallFrame("publish", 2, NoClient, topic, payload, qos)]
    /\ last' = [NoLast EXCEPT !.op = "setRetainedMessage", !.topic = topic,
                   !.payload = payload, !.qos = qos]
    /\ UNCHANGED <<authVars, fileVars, subscriptionsRwlock, clients, clients_by_fd,
                   sessionsById, sessions, subs, now>>

\* locker.unlock() at the end of setRetainedMessage
SetRetainedMessageUnlock(w) ==
    /\ threads[w].op = "publish" /\ threads[w].pc = 2
    /\ retainedMessagesRwlock' = RwUnlock(retainedMessagesRwlock, w)
    /\ threads' = [threads EXCEPT ![w].pc = 3]
    /\ UNCHANGED <<storeVars, authVars, fileVars, subscriptionsRwlock>>

\* queuePacketAtSubscribers of the same PUBLISH: the read lock of the trie
\* and the walk over the trie as it is at that moment.
QueuePacketAtSubscribersRdlock(w) ==
    /\ threads[w].op = "publish" /\ threads[w].pc = 3
    /\ CanRdlock(subscriptionsRwlock)
    /\ LET f == threads[w]
           calls == QueuePacketAtSubscribers(f.topic,
                        [topic |-> f.topic, payload |-> f.payload, qos |-> f.qos],
                        DollarArgument(f.topic), subs)
       IN /\ sessions' = WritePackets(sessions, calls, 1)
          /\ PendingWithinBound(sessions')
          /\ last' = [NoLast EXCEPT !.op = "publish", !.topic = f.topic,
                         !.payload = f.payload, !.qos = f.qos, !.calls = calls]
    /\ subscriptionsRwlock' = Rdlock(subscriptionsRwlock, w)
    /\ threads' = [threads EXCEPT ![w].pc = 4]
    /\ UNCHANGED <<authVars, fileVars, retainedMessagesRwlock, clients, clients_by_fd,
                   sessionsById, subs, retained, retainedMessageCount, now>>

\* queuePacketAtSubscribers returns: its guard releases the read lock.
QueuePacketAtSubscribersReturn(w) ==
    /\ threads[w].op = "publish" /\ threads[w].pc = 4
    /\ subscriptionsRwlock' = RwUnlock(subscriptionsRwlock, w)
    /\ threads' = [threads EXCEPT ![w] = IdleThread]
    /\ UNCHANGED <<storeVars, authVars, fileVars, retainedMessagesRwlock>>

\* ---------------------------------------------------------- persistence
\* RetainedMessagesDB / SessionsAndSubscriptionsDB: saveData writes the
\* records it is given, readData returns the records of the file in order.
SaveData(records) == [exists |-> TRUE, data |-> records]
ReadData(file) == file.data

\* SubscriptionStore::getRetainedMessages: the messages of this_node and of
\* every node below it.
RECURSIVE GetRetainedMessages(_, _)
GetRetainedMessages(this_node, R) ==
    LET kids == SetToSeq(ChildPaths(R, this_node))
    IN SetToSeq(R[this_node])
       \o Flatten([i \in 1..Len(kids) |-> GetRetainedMessages(kids[i], R)])

\* SubscriptionStore::saveRetainedMessages
SaveRetainedMessages ==
    /\ retainedMessagesFile' =
          SaveData(GetRetainedMessages(<<RETAINEDROOT>>, retained))
    /\ last' = [NoLast EXCEPT !.op = "saveRetainedMessages"]
    /\ UNCHANGED <<authVars, lockVars, sessionsFile, clients, clients_by_fd,
                   sessionsById, sessions, subs, retained, retainedMessageCount, now>>

\* The loop of loadRetainedMessages from message i on: the tree and the
\* count after setRetainedMessage has run for every message read.
RECURSIVE LoadRetainedMessagesResult(_, _, _, _)
LoadRetainedMessagesResult(messages, i, R, totalCount) ==
    IF i > Len(messages) THEN [tree |-> R, count |-> totalCount]
    ELSE LET rm == messages[i]
             r == SetRetainedMessageResult(rm.topic, rm.topic, rm.payload, rm.qos,
                                           R, totalCount)
         IN LoadRetainedMessagesResult(messages, i + 1, r.tree, r.count)

\* SubscriptionStore::loadRetainedMessages; a file that is not there is
\* logged and nothing is loaded.  This is the call as one step, in a build
\* where every setRetainedMessage of the loop goes through; the lock
\* operations of the call are the actions from LoadRetainedMessagesWrlock
\* on.
LoadRetainedMessages ==
    /\ LET r == IF retainedMessagesFile.exists
                THEN LoadRetainedMessagesResult(ReadData(retainedMessagesFile), 1,
                                                retained, retainedMessageCount)
                ELSE [tree |-> retained, count |-> retainedMessageCount]
       IN /\ Cardinality(NonRootNodes(r.tree)) <= MaxRetainedNodes
          /\ retained' = r.tree
          /\ retainedMessageCount' = r.count
    /\ last' = [NoLast EXCEPT !.op = "loadRetainedMessages"]
    /\ UNCHANGED <<authVars, fileVars, lockVars, clients, clients_by_fd,
                   sessionsById, sessions, subs, now>>

\* What the build does when a thread asks for the write lock of a rwlock
\* it holds for writing (pthread_rwlock_wrlock leaves it undefined): the
\* call never returns; or it fails with EDEADLK and the guard throws, or
\* goes on and its unlock() does nothing, or goes on and its unlock()
\* unlocks the rwlock.
SelfLockOutcomes == {"blocks", "throws", "forgets", "unlocks"}

LoadFrame(pc, messages, i, selfLock) ==
    [op |-> "loadRetainedMessages", pc |-> pc, messages |-> messages, i |-> i,
     selfLock |-> selfLock]

\* loadRetainedMessages up to its loop: the file is read, then the write
\* lock of the retained tree is taken.
LoadRetainedMessagesWrlock(w, selfLock) ==
    /\ threads[w] = IdleThread
    /\ retainedMessagesFile.exists
    /\ CanWrlock(retainedMessagesRwlock)
    /\ LET messages == ReadData(retainedMessagesFile)
           r == LoadRetainedMessagesResult(messages, 1, retained, retainedMessageCount)
       IN /\ Cardinality(NonRootNodes(r.tree)) <= MaxRetainedNodes
          /\ threads' = [threads EXCEPT ![w] = LoadFrame(1, messages, 1, selfLock)]
    /\ retainedMessagesRwlock' = Wrlock(retainedMessagesRwlock, w)
    /\ last' = [NoLast EXCEPT !.op = "loadRetainedMessagesWrlock"]
    /\ UNCHANGED <<authVars, fileVars, subscriptionsRwlock, clients, clients_by_fd,
                   sessionsById, sessions, subs, retained, retainedMessageCount, now>>

\* The loop calls setRetainedMessage for message i, which asks for the
\* write lock of the retained tree.
SetRetainedMessageCall(w) ==
    /\ threads[w].op = "loadRetainedMessages" /\ threads[w].pc = 1
    /\ threads[w].i <= Len(threads[w].messages)
    /\ threads' = [threads EXCEPT ![w].pc = 2]
    /\ UNCHANGED <<storeVars, authVars, fileVars, subscriptionsRwlock,
                   retainedMessagesRwlock>>

\* The wrlock() of that setRetainedMessage returns and the call runs to its
\* end.  The lock is free only after an earlier unlock() of the loop gave
\* it up; held by the thread itself, the request ends as the build has it.
SetRetainedMessageNested(w) ==
    /\ threads[w].op = "loadRetainedMessages" /\ threads[w].pc = 2
    /\ LET f == threads[w]
           rm == f.messages[f.i]
           r == SetRetainedMessageResult(rm.topic, rm.topic, rm.payload, rm.qos,
                                         retained, retainedMessageCount)
           self == retainedMessagesRwlock.writer = w
       IN /\ IF self THEN f.selfLock # "blocks" ELSE CanWrlock(retainedMessagesRwlock)
          /\ IF self /\ f.selfLock = "throws"
             THEN /\ retainedMessagesRwlock' = RwUnlock(retainedMessagesRwlock, w)
                  /\ threads' = [threads EXCEPT ![w] = IdleThread]
                  /\ last' = [NoLast EXCEPT !.op = "loadRetainedMessages",
                                 !.error = "runtime_error"]
                  /\ UNCHANGED <<retained, retainedMessageCount>>
             ELSE /\ retained' = r.tree
                  /\ retainedMessageCount' = r.count
                  /\ retainedMessagesRwlock' =
                        IF self /\ f.selfLock = "forgets" THEN retainedMessagesRwlock
                        ELSE RwUnlock(retainedMessagesRwlock, w)
                  /\ threads' = [threads EXCEPT ![w] = [f EXCEPT !.pc = 1, !.i = f.i + 1]]
                  /\ last' = [NoLast EXCEPT !.op = "setRetainedMessage",
                                 !.topic = rm.topic, !.payload = rm.payload,
                                 !.qos = rm.qos]
    /\ UNCHANGED <<authVars, fileVars, subscriptionsRwlock, clients, clients_by_fd,
                   sessionsById, sessions, subs, now>>

\* The loop is over: loadRetainedMessages returns and the destructor of its
\* guard gives the lock up.
LoadRetainedMessagesReturn(w) ==
    /\ threads[w].op = "loadRetainedMessages" /\ threads[w].pc = 1
    /\ threads[w].i > Len(threads[w].messages)
    /\ retainedMessagesRwlock' = RwUnlock(retainedMessagesRwlock, w)
    /\ threads' = [threads EXCEPT ![w] = IdleThread]
    /\ last' = [NoLast EXCEPT !.op = "loadRetainedMessages"]
    /\ UNCHANGED <<authVars, fileVars, subscriptionsRwlock, clients, clients_by_fd,
                   sessionsById, sessions, subs, retained, retainedMessageCount, now>>

\* The entries getSubscriptions adds for the subscribers of one node.
SubscriptionsForSerializing(subscribers, composedTopic, heap) ==
    Flatten([i \in 1..Len(subscribers) |->
               IF subscribers[i].session \in DOMAIN heap
               THEN <<[topic |-> composedTopic,
                       clientId |-> heap[subscribers[i].session].client_id,
                       qos |-> subscribers[i].qos]>>
               ELSE <<>>])

\* SubscriptionStore::getSubscriptions: the entries of this_node, of its
\* literal children, of childrenPlus and of childrenPound.
RECURSIVE GetSubscriptions(_, _, _, _, _)
GetSubscriptions(this_node, composedTopic, root, T, heap) ==
    LET kids == SetToSeq(ChildrenMap(T, this_node))
        topicAtNextLevel(name) ==
            IF root THEN <<name>> ELSE Append(composedTopic, name)
    IN SubscriptionsForSerializing(T[this_node], composedTopic, heap)
       \o Flatten([i \in 1..Len(kids) |->
                     GetSubscriptions(kids[i], topicAtNextLevel(kids[i][Len(kids[i])]),
                                      FALSE, T, heap)])
       \o (IF HasChildrenPlus(T, this_node)
           THEN GetSubscriptions(Append(this_node, "+"), topicAtNextLevel("+"),
                                 FALSE, T, heap)
           ELSE <<>>)
       \o (IF HasChildrenPound(T, this_node)
           THEN GetSubscriptions(Append(this_node, "#"), topicAtNextLevel("#"),
                                 FALSE, T, heap)
           ELSE <<>>)

\* SubscriptionStore::saveSessionsAndSubscriptions: a copy of every session
\* of the registry and the subscriptions getSubscriptions collects.
SaveSessionsAndSubscriptions ==
    /\ sessionsFile' =
          SaveData([sessions |-> { k \in ClientIds : sessionsById[k] # NoSession },
                    subscriptions |->
                        GetSubscriptions(<<ROOT>>, <<>>, TRUE, subs, sessions)])
    /\ last' = [NoLast EXCEPT !.op = "saveSessionsAndSubscriptions"]
    /\ UNCHANGED <<authVars, lockVars, retainedMessagesFile, clients, clients_by_fd,
                   sessionsById, sessions, subs, retained, retainedMessageCount, now>>

\* The broker process ends and a new one starts: every object is as
\* constructed, the snapshot files are what they were.
Restart ==
    /\ clients' = <<>>
    /\ clients_by_fd' = [w \in Workers |-> {}]
    /\ sessionsById' = [k \in ClientIds |-> NoSession]
    /\ sessions' = <<>>
    /\ subs' = [p \in {<<ROOT>>, <<ROOTDOLLAR>>} |-> <<>>]
    /\ retained' = [p \in {<<RETAINEDROOT>>, <<RETAINEDROOTDOLLAR>>} |-> {}]
    /\ retainedMessageCount' = 0
    /\ now' = 0
    /\ last' = [NoLast EXCEPT !.op = "restart"]
    /\ UNCHANGED <<authVars, fileVars, lockVars>>

\* ------------------------------------------------ Authentication actions
CanLock_Always(serialize, mutex) == TRUE

\* UnscopedLock::lock() when the setting asks for it: the mutex afterwards.
LockIf(serialize, mutex, w) == IF serialize THEN w ELSE mutex

\* lock() returns only when no other thread holds the mutex.
CanLock(serialize, mutex) == serialize => mutex = Unlocked

\* UnscopedLock::~UnscopedLock: unlocks what this thread locked.
Unlock(mutex, w) == IF mutex = w THEN Unlocked ELSE mutex

\* ThreadData::initAuthPlugin up to the lock of Authentication::init:
\* loadPlugin, which either loads every symbol or throws FatalError.
InitAuthPlugin(w, loads) ==
    /\ authPlugin[w].pc = "constructed"
    /\ authPlugin' = [authPlugin EXCEPT ![w] =
          IF settings.authPluginPath = ""
          THEN [@ EXCEPT !.pc = "idle"]
          ELSE IF loads
          THEN [@ EXCEPT !.useExternalPlugin = TRUE, !.initialized = TRUE,
                         !.cleanup_v2 = TRUE, !.pc = "init_lock"]
          ELSE [@ EXCEPT !.useExternalPlugin = TRUE, !.initialized = FALSE,
                         !.pc = "failed"]]
    /\ UNCHANGED <<storeVars, fileVars, lockVars, settings, initMutex, authChecksMutex>>

Quitting_Ignored(a) == FALSE

\* if (quitting) return;
Quitting(a) == a.quitting

\* The history of a call that returns because of the quitting flag.
SkippedAfter(seen) == IF seen = "waiting" THEN "skipped" ELSE seen

\* Authentication::init from its lock to the call of init_v2
InitLock(w) ==
    /\ authPlugin[w].pc = "init_lock"
    /\ CanLock(settings.authPluginSerializeInit, initMutex)
    /\ IF Quitting(authPlugin[w])
       THEN /\ authPlugin' = [authPlugin EXCEPT ![w].pc = "security_init_lock",
                                               ![w].quitSeen = SkippedAfter(@)]
            /\ UNCHANGED initMutex
       ELSE /\ authPlugin' = [authPlugin EXCEPT ![w].pc = "init"]
            /\ initMutex' = LockIf(settings.authPluginSerializeInit, initMutex, w)
    /\ UNCHANGED <<storeVars, fileVars, lockVars, settings, authChecksMutex>>

\* init_v2 returns: a non-zero result is a FatalError
InitReturn(w, result) ==
    /\ authPlugin[w].pc = "init"
    /\ authPlugin' = [authPlugin EXCEPT
          ![w].pc = IF result = 0 THEN "security_init_lock" ELSE "failed",
          ![w].initDone = (result = 0)]
    /\ initMutex' = Unlock(initMutex, w)
    /\ UNCHANGED <<storeVars, fileVars, lockVars, settings, authChecksMutex>>

\* Authentication::securityInit from its lock to the call of security_init_v2
SecurityInitLock(w) ==
    /\ authPlugin[w].pc = "security_init_lock"
    /\ CanLock(settings.authPluginSerializeInit, initMutex)
    /\ IF Quitting(authPlugin[w])
       THEN /\ authPlugin' = [authPlugin EXCEPT ![w].pc = "idle",
                                               ![w].reloading = FALSE,
                                               ![w].quitSeen = SkippedAfter(@)]
            /\ UNCHANGED initMutex
       ELSE /\ authPlugin' = [authPlugin EXCEPT ![w].pc = "security_init"]
            /\ initMutex' = LockIf(settings.authPluginSerializeInit, initMutex, w)
    /\ UNCHANGED <<storeVars, fileVars, lockVars, settings, authChecksMutex>>

SecurityInitResult_AlwaysInitialized(a, result) ==
    [a EXCEPT !.initialized = TRUE, !.pc = "idle", !.reloading = FALSE,
              !.securityInitDone = (result = 0),
              !.reloadFailed = IF a.reloading THEN result # 0 ELSE @]

\* security_init_v2 returns: zero sets initialized; non-zero throws
\* AuthPluginException, which ThreadData::reload catches and which ends
\* ThreadData::initAuthPlugin.
SecurityInitResult(a, result) ==
    IF result = 0
    THEN [a EXCEPT !.initialized = TRUE, !.pc = "idle", !.reloading = FALSE,
                   !.securityInitDone = TRUE,
                   !.reloadFailed = IF a.reloading THEN FALSE ELSE @]
    ELSE IF a.reloading
    THEN [a EXCEPT !.pc = "idle", !.reloading = FALSE, !.reloadFailed = TRUE,
                   !.securityInitDone = FALSE]
    ELSE [a EXCEPT !.pc = "failed", !.securityInitDone = FALSE]

SecurityInitReturn(w, result) ==
    /\ authPlugin[w].pc = "security_init"
    /\ authPlugin' = [authPlugin EXCEPT ![w] = SecurityInitResult(@, result)]
    /\ initMutex' = Unlock(initMutex, w)
    /\ UNCHANGED <<storeVars, fileVars, lockVars, settings, authChecksMutex>>

\* Authentication::securityCleanup up to the call of security_cleanup_v2
SecurityCleanupEnter(a, reloading) ==
    [a EXCEPT !.initialized = FALSE, !.reloading = reloading,
              !.securityInitDone = FALSE,
              !.pc = "security_cleanup", !.ret = NoRet]

\* ThreadData::reload up to the call of security_cleanup_v2; without a
\* plugin securityCleanup and securityInit both return at once.
Reload(w) ==
    /\ authPlugin[w].pc = "idle"
    /\ authPlugin' = [authPlugin EXCEPT ![w] =
          IF ~@.useExternalPlugin THEN [@ EXCEPT !.ret = NoRet]
          ELSE SecurityCleanupEnter(@, TRUE)]
    /\ UNCHANGED <<storeVars, fileVars, lockVars, settings, initMutex, authChecksMutex>>

\* security_cleanup_v2 returns: in a reload securityInit follows, or the
\* exception is caught; in cleanup() cleanup_v2 follows.
SecurityCleanupReturn(w, result) ==
    /\ authPlugin[w].pc = "security_cleanup"
    /\ authPlugin' = [authPlugin EXCEPT ![w] =
          IF @.reloading
          THEN IF result = 0
               THEN [@ EXCEPT !.pc = "security_init_lock"]
               ELSE [@ EXCEPT !.pc = "idle", !.reloading = FALSE,
                              !.reloadFailed = TRUE]
          ELSE IF result = 0
               THEN [@ EXCEPT !.pc = "cleanup"]
               ELSE [@ EXCEPT !.pc = "failed"]]
    /\ UNCHANGED <<storeVars, fileVars, lockVars, settings, initMutex, authChecksMutex>>

\* Authentication::cleanup, called by the destructor, up to the call of
\* security_cleanup_v2
Cleanup(w) ==
    /\ authPlugin[w].pc = "idle"
    /\ authPlugin' = [authPlugin EXCEPT ![w] =
          IF ~@.cleanup_v2 THEN [@ EXCEPT !.pc = "destroyed", !.ret = NoRet]
          ELSE SecurityCleanupEnter(@, FALSE)]
    /\ UNCHANGED <<storeVars, fileVars, lockVars, settings, initMutex, authChecksMutex>>

\* cleanup_v2 returns; the object is gone.
CleanupReturn(w, result) ==
    /\ authPlugin[w].pc = "cleanup"
    /\ authPlugin' = [authPlugin EXCEPT ![w].pc = "destroyed"]
    /\ UNCHANGED <<storeVars, fileVars, lockVars, settings, initMutex, authChecksMutex>>

\* Authentication::setQuitting, called from the main thread
SetQuitting(w) ==
    /\ authPlugin[w].pc \notin {"destroyed", "failed"}
    /\ ~authPlugin[w].quitting
    /\ authPlugin' = [authPlugin EXCEPT
          ![w].quitting = TRUE,
          ![w].quitSeen =
             IF /\ @ = "none"
                /\ authPlugin[w].pc \in {"init_lock", "security_init_lock"}
                /\ ~CanLock(settings.authPluginSerializeInit, initMutex)
             THEN "waiting" ELSE @]
    /\ UNCHANGED <<storeVars, fileVars, lockVars, settings, initMutex, authChecksMutex>>

\* Authentication::loadMosquittoPasswordFile for a file that is readable
\* or not, has the ctime given and holds the lines given.
LoadMosquittoPasswordFile(w, readable, ctime, lines) ==
    /\ authPlugin[w].pc = "idle"
    /\ authPlugin' = [authPlugin EXCEPT
          ![w] = IF settings.mosquittoPasswordFile = "" THEN @
                 ELSE IF ~readable THEN @
                 ELSE IF CtimeUnchanged(ctime, @.mosquittoPasswordFileLastLoad) THEN @
                 ELSE [@ EXCEPT !.mosquittoPasswordEntries =
                                   [loaded |-> TRUE,
                                    table |-> ParsePasswordLines(lines, 1, {})],
                                !.mosquittoPasswordFileLastLoad = ctime],
          ![w].loadCall = <<readable, ctime>>]
    /\ UNCHANGED <<storeVars, fileVars, lockVars, settings, initMutex, authChecksMutex>>

\* Authentication::unPwdCheckFromMosquittoPasswordFile
UnPwdCheckFromMosquittoPasswordFile(a, username, password) ==
    IF settings.mosquittoPasswordFile = "" THEN "success"
    ELSE IF ~a.mosquittoPasswordEntries.loaded THEN "login_denied"
    ELSE LET found == { e \in a.mosquittoPasswordEntries.table :
                          e.username = username }
         IN IF found # {}
            THEN IF \E e \in found : Digest(password, e.salt) = e.cryptedPassword
                 THEN "success" ELSE "login_denied"
            ELSE IF settings.allowAnonymous THEN "success" ELSE "login_denied"

AclCheckEarly_PluginFirst(a) == "plugin"

\* Authentication::aclCheck before the lock: the result it returns without
\* the plugin, or "plugin" when it goes on to call acl_check_v2.
AclCheckEarly(a) ==
    IF ~a.useExternalPlugin THEN "success"
    ELSE IF ~a.initialized THEN "error"
    ELSE "plugin"

UnPwdCheckEarly_IgnoreFirst(a, firstResult) ==
    IF ~a.useExternalPlugin THEN "success"
    ELSE IF ~a.initialized THEN "error"
    ELSE "plugin"

\* Authentication::unPwdCheck before the lock, given the result of the
\* password file.
UnPwdCheckEarly(a, firstResult) ==
    IF firstResult # "success" THEN firstResult
    ELSE IF ~a.useExternalPlugin THEN firstResult
    ELSE IF ~a.initialized THEN "error"
    ELSE "plugin"

\* Authentication::aclCheck up to the call of acl_check_v2
AclCheck(w) ==
    /\ authPlugin[w].pc = "idle"
    /\ LET early == AclCheckEarly(authPlugin[w])
       IN IF early # "plugin"
          THEN /\ authPlugin' = [authPlugin EXCEPT ![w].ret =
                     [NoRet EXCEPT !.op = "aclCheck", !.result = early]]
               /\ UNCHANGED authChecksMutex
          ELSE /\ CanLock(settings.authPluginSerializeAuthChecks, authChecksMutex)
               /\ authChecksMutex' =
                     LockIf(settings.authPluginSerializeAuthChecks, authChecksMutex, w)
               /\ authPlugin' = [authPlugin EXCEPT
                     ![w].pc = "acl_check",
                     ![w].ret = [NoRet EXCEPT !.op = "aclCheck",
                                              !.pluginCalled = TRUE]]
    /\ UNCHANGED <<storeVars, fileVars, lockVars, settings, initMutex>>

\* acl_check_v2 returns; aclCheck returns its result.
AclCheckReturn(w, result) ==
    /\ authPlugin[w].pc = "acl_check"
    /\ authPlugin' = [authPlugin EXCEPT
          ![w].pc = "idle",
          ![w].ret = [@ EXCEPT !.pluginResult = result, !.result = result]]
    /\ authChecksMutex' = Unlock(authChecksMutex, w)
    /\ UNCHANGED <<storeVars, fileVars, lockVars, settings, initMutex>>

\* Authentication::unPwdCheck up to the call of unpwd_check_v2
UnPwdCheck(w, username, password) ==
    /\ authPlugin[w].pc = "idle"
    /\ LET firstResult ==
              UnPwdCheckFromMosquittoPasswordFile(authPlugin[w], username, password)
           early == UnPwdCheckEarly(authPlugin[w], firstResult)
       IN IF early # "plugin"
          THEN /\ authPlugin' = [authPlugin EXCEPT ![w].ret =
                     [NoRet EXCEPT !.op = "unPwdCheck",
                                   !.firstResult = firstResult, !.result = early]]
               /\ UNCHANGED authChecksMutex
          ELSE /\ CanLock(settings.authPluginSerializeAuthChecks, authChecksMutex)
               /\ authChecksMutex' =
                     LockIf(settings.authPluginSerializeAuthChecks, authChecksMutex, w)
               /\ authPlugin' = [authPlugin EXCEPT
                     ![w].pc = "unpwd_check",
                     ![w].ret = [NoRet EXCEPT !.op = "unPwdCheck",
                                              !.firstResult = firstResult,
                                              !.pluginCalled = TRUE]]
    /\ UNCHANGED <<storeVars, fileVars, lockVars, settings, initMutex>>

\* unpwd_check_v2 returns; unPwdCheck returns its result.
UnPwdCheckReturn(w, result) ==
    /\ authPlugin[w].pc = "unpwd_check"
    /\ authPlugin' = [authPlugin EXCEPT
          ![w].pc = "idle",
          ![w].ret = [@ EXCEPT !.pluginResult = result, !.result = result]]
    /\ authChecksMutex' = Unlock(authChecksMutex, w)
    /\ UNCHANGED <<storeVars, fileVars, lockVars, settings, initMutex>>

\* --------------------------------------------------------- specifications
\* Matching: one connection builds the trie, any topic is published.
MatchConns == {1}
MatchIds == {"k1"}
MatchQoS == {1}

NextMatch ==
    \/ \E c \in MatchConns : GiveClient(c)
    \/ \E c \in MatchConns, id \in MatchIds, clean \in BOOLEAN :
          RegisterClientAndKickExistingOne(c, id, clean)
    \/ \E c \in MatchConns, f \in Filters, q \in MatchQoS : AddSubscription(c, f, q)
    \/ \E t \in PublishTopics : Publish(t, "x", 0)

SpecMatch == Init /\ [][NextMatch]_vars

\* Subscribers: several sessions come and go on a few overlapping filters.
SubsConns == {1, 2}
SubsFilters == { <<"a">>, <<"a", "+">>, <<"+">>, <<"#">>, <<"$S">> }
SubsTopics == { <<"a">>, <<"a", "b">>, <<"b">>, <<"$S">> }

NextSubs ==
    \/ \E c \in SubsConns : GiveClient(c)
    \/ \E c \in SubsConns, id \in MatchIds, clean \in BOOLEAN :
          RegisterClientAndKickExistingOne(c, id, clean)
    \/ \E c \in SubsConns, f \in SubsFilters, q \in MatchQoS : AddSubscription(c, f, q)
    \/ \E c \in SubsConns, f \in SubsFilters : RemoveSubscription(c, f)
    \/ \E t \in SubsTopics : Publish(t, "x", 0)
    \/ \E id \in MatchIds : RemoveSession(id)
    \/ RemoveExpiredSessionsClients(0)

SpecSubs == Init /\ [][NextSubs]_vars

\* Re-subscription: two client-ids subscribe again and again with any QoS.
QosFilters == { <<"a", "#">> }

NextQos ==
    \/ \E c \in Conns : GiveClient(c)
    \/ \E c \in Conns, id \in ClientIds, clean \in BOOLEAN :
          RegisterClientAndKickExistingOne(c, id, clean)
    \/ \E c \in Conns, f \in QosFilters, q \in QoS : AddSubscription(c, f, q)
    \/ \E c \in Conns, f \in QosFilters : RemoveSubscription(c, f)

SpecQos == Init /\ [][NextQos]_vars

\* Sessions: the registry and the workers' connection tables.
NextSessions ==
    \/ \E c \in Conns : GiveClient(c)
    \/ \E c \in Conns : RemoveClientFd(c)
    \/ \E c \in Conns, id \in ClientIds, clean \in BOOLEAN :
          RegisterClientAndKickExistingOne(c, id, clean)
    \/ \E id \in ClientIds : SessionPresent(id)
    \/ \E id \in ClientIds : RemoveSession(id)
    \/ \E n \in ExpireSeconds : RemoveExpiredSessionsClients(n)
    \/ Tick

SpecSessions == Init /\ [][NextSessions]_vars

\* Registry: every operation that writes sessionsById, with connections
\* that come, register and close.  The loaded files hold sessions only.

NextRegistry ==
    \/ \E c \in SubsConns : GiveClient(c)
    \/ \E c \in SubsConns : RemoveClientFd(c)
    \/ \E c \in SubsConns, id \in ClientIds \cup {""}, clean \in BOOLEAN :
          RegisterClientAndKickExistingOne(c, id, clean)
    \/ \E id \in ClientIds : RemoveSession(id)
    \/ RemoveExpiredSessionsClients(0)
    \/ \E ls \in SUBSET ClientIds : LoadSessionsAndSubscriptions(ls, <<>>)
    \/ Tick

SpecRegistry == Init /\ [][NextRegistry]_vars

\* Retained messages: sets and deletes, then one subscribe that replays.
RetainedQoS == {0, 2}
RetainedPayloads == {"", "x"}
RetainedFetchQoS == {1}
RetainedTopics == { t \in PublishTopics : \A i \in 2..Len(t) : t[i] = "a" }

NextRetained ==
    \/ \E c \in MatchConns : GiveClient(c)
    \/ \E c \in MatchConns, id \in MatchIds :
          RegisterClientAndKickExistingOne(c, id, TRUE)
    \/ \E t \in RetainedTopics, p \in RetainedPayloads, q \in RetainedQoS :
          /\ NonRootNodes(subs) = {}
          /\ SetRetainedMessage(t, p, q)
    \/ \E c \in MatchConns, f \in Filters, q \in RetainedFetchQoS :
          /\ NonRootNodes(subs) = {}
          /\ AddSubscription(c, f, q)

SpecRetained == Init /\ [][NextRetained]_vars

\* Session takeover: one filter, one topic, publishes of QoS 0 and 1.
TakeoverFilters == {<<"a">>}
TakeoverTopics == {<<"a">>}
TakeoverQoS == {0, 1}

NextTakeover ==
    \/ \E c \in Conns : GiveClient(c)
    \/ \E c \in Conns : RemoveClientFd(c)
    \/ \E c \in Conns, id \in ClientIds, clean \in BOOLEAN :
          RegisterClientAndKickExistingOne(c, id, clean)
    \/ \E c \in Conns, f \in TakeoverFilters : AddSubscription(c, f, 1)
    \/ \E t \in TakeoverTopics, q \in TakeoverQoS : Publish(t, "x", q)

SpecTakeover == Init /\ [][NextTakeover]_vars

\* Session expiry: subscriptions under both roots, the clock and the sweep.
ExpiryFilters == {<<"a">>, <<"$S">>}

NextExpiry ==
    \/ \E c \in Conns : GiveClient(c)
    \/ \E c \in Conns, id \in ClientIds, clean \in BOOLEAN :
          RegisterClientAndKickExistingOne(c, id, clean)
    \/ \E c \in Conns, f \in ExpiryFilters : AddSubscription(c, f, 1)
    \/ \E t \in ExpiryFilters : Publish(t, "x", 0)
    \/ \E n \in ExpireSeconds : RemoveExpiredSessionsClients(n)
    \/ Tick

SpecExpiry == Init /\ [][NextExpiry]_vars

\* One worker's Authentication under every configuration: the password
\* file, the checks and the plugin's life from initAuthPlugin to reloads.
LoginWorkers == {1}
FileCtimes == {[tv_sec |-> 1, tv_nsec |-> 0]}
FileContents == {<<>>, <<PasswordLine("u", "s", "p")>>}

InitLogin == StoreInit /\ AuthInit(AllSettings)

NextLogin ==
    \/ \E w \in LoginWorkers, loads \in BOOLEAN : InitAuthPlugin(w, loads)
    \/ \E w \in LoginWorkers : InitLock(w)
    \/ \E w \in LoginWorkers, result \in PluginReturns : InitReturn(w, result)
    \/ \E w \in LoginWorkers : SecurityInitLock(w)
    \/ \E w \in LoginWorkers, result \in PluginReturns : SecurityInitReturn(w, result)
    \/ \E w \in LoginWorkers : Reload(w)
    \/ \E w \in LoginWorkers, result \in PluginReturns :
          SecurityCleanupReturn(w, result)
    \/ \E w \in LoginWorkers : SetQuitting(w)
    \/ \E w \in LoginWorkers, readable \in BOOLEAN, ctime \in FileCtimes,
          content \in FileContents :
          LoadMosquittoPasswordFile(w, readable, ctime, content)
    \/ \E w \in LoginWorkers : AclCheck(w)
    \/ \E w \in LoginWorkers, result \in AuthResults : AclCheckReturn(w, result)
    \/ \E w \in LoginWorkers, username \in Usernames, password \in Passwords :
          UnPwdCheck(w, username, password)
    \/ \E w \in LoginWorkers, result \in AuthResults : UnPwdCheckReturn(w, result)

SpecLogin == InitLogin /\ [][NextLogin]_vars

\* The worker threads inside one plugin: a plugin is configured, no
\* password file is, and the two serialize settings take every value.
SerializeSettings ==
    { st \in AllSettings : /\ st.authPluginPath # ""
                           /\ st.mosquittoPasswordFile = ""
                           /\ ~st.allowAnonymous }
SerializeResults == {"success", "error"}

InitSerialize == StoreInit /\ AuthInit(SerializeSettings)

NextSerialize ==
    \/ \E w \in Workers : InitAuthPlugin(w, TRUE)
    \/ \E w \in Workers : InitLock(w)
    \/ \E w \in Workers, result \in PluginReturns : InitReturn(w, result)
    \/ \E w \in Workers : SecurityInitLock(w)
    \/ \E w \in Workers, result \in PluginReturns : SecurityInitReturn(w, result)
    \/ \E w \in Workers : Reload(w)
    \/ \E w \in Workers, result \in PluginReturns : SecurityCleanupReturn(w, result)
    \/ \E w \in Workers : Cleanup(w)
    \/ \E w \in Workers, result \in PluginReturns : CleanupReturn(w, result)
    \/ \E w \in Workers : SetQuitting(w)
    \/ \E w \in Workers : AclCheck(w)
    \/ \E w \in Workers, result \in SerializeResults : AclCheckReturn(w, result)
    \/ \E w \in Workers : UnPwdCheck(w, "u", "p")
    \/ \E w \in Workers, result \in SerializeResults : UnPwdCheckReturn(w, result)

SpecSerialize == InitSerialize /\ [][NextSerialize]_vars

\* The password file alone: files of a few lines, changed between loads
\* within one second and across seconds, and logins against the table.
PasswordSettings ==
    { st \in AllSettings : /\ st.authPluginPath = ""
                           /\ st.mosquittoPasswordFile # ""
                           /\ ~st.authPluginSerializeInit
                           /\ ~st.authPluginSerializeAuthChecks }
PasswordCtimes ==
    {[tv_sec |-> 1, tv_nsec |-> 0], [tv_sec |-> 1, tv_nsec |-> 5],
     [tv_sec |-> 2, tv_nsec |-> 0]}
PasswordFileLines ==
    {MalformedLine, PasswordLine("v", "s", "p")} \cup
    { PasswordLine("u", salt, password) : salt \in Salts, password \in Passwords }
PasswordFileTexts ==
    UNION { [1..n -> PasswordFileLines] : n \in 0..MaxFileLines }

InitPassword == StoreInit /\ AuthInit(PasswordSettings)

NextPassword ==
    \/ \E w \in LoginWorkers : InitAuthPlugin(w, TRUE)
    \/ \E w \in LoginWorkers, readable \in BOOLEAN, ctime \in PasswordCtimes,
          lines \in PasswordFileTexts :
          LoadMosquittoPasswordFile(w, readable, ctime, lines)
    \/ \E w \in LoginWorkers, username \in Usernames, password \in Passwords :
          UnPwdCheck(w, username, password)

SpecPassword == InitPassword /\ [][NextPassword]_vars

\* The retained snapshot: messages under both roots are set, saved, and
\* loaded after a restart.
PersistTopics == { <<"a">>, <<"a", "b">>, <<"$S">> }
PersistPayloads == {"", "x"}
PersistQoS == {0, 1}

NextPersistRetained ==
    \/ \E t \in PersistTopics, p \in PersistPayloads, q \in PersistQoS :
          SetRetainedMessage(t, p, q)
    \/ SaveRetainedMessages
    \/ LoadRetainedMessages
    \/ Restart

SpecPersistRetained == Init /\ [][NextPersistRetained]_vars

\* The sessions snapshot: a session subscribes under both roots, the store
\* is saved, and a new process loads the file when it starts.
PersistConns == {1}
PersistIds == {"k1"}
PersistFilters == { <<"a">>, <<"+">>, <<"$S">> }

\* The store of a process that has just started.
StoreAsConstructed ==
    /\ \A k \in ClientIds : sessionsById[k] = NoSession
    /\ NonRootNodes(subs) = {}

NextPersistSessions ==
    \/ \E c \in PersistConns : GiveClient(c)
    \/ \E c \in PersistConns, id \in PersistIds :
          RegisterClientAndKickExistingOne(c, id, TRUE)
    \/ \E c \in PersistConns, f \in PersistFilters, q \in PersistQoS :
          AddSubscription(c, f, q)
    \/ SaveSessionsAndSubscriptions
    \/ /\ sessionsFile.exists
       /\ StoreAsConstructed
       /\ LoadSessionsAndSubscriptions(ReadData(sessionsFile).sessions,
                                       ReadData(sessionsFile).subscriptions)
    \/ Restart

SpecPersistSessions == Init /\ [][NextPersistSessions]_vars

\* The trie under subscribes, unsubscribes, sweeps and loads, while worker
\* threads are inside a publish: the walk of queuePacketAtSubscribers runs
\* while its thread holds subscriptionsRwlock for reading.
TrieConns == {1}
TrieIds == {"k1"}
TrieFilters == { <<"a">>, <<"a", "+">>, <<"#">> }
TrieTopics == { <<"a">>, <<"a", "b">> }
TrieFiles ==
    { <<[topic |-> <<"a", "+">>, clientId |-> k, qos |-> 1]>> : k \in ClientIds }

NextTrie ==
    \/ \E c \in TrieConns : GiveClient(c)
    \/ \E c \in TrieConns, id \in TrieIds, clean \in BOOLEAN :
          RegisterClientAndKickExistingOne(c, id, clean)
    \/ \E c \in TrieConns, f \in TrieFilters : AddSubscription(c, f, 0)
    \/ \E c \in TrieConns, f \in TrieFilters : RemoveSubscription(c, f)
    \/ RemoveExpiredSessionsClients(0)
    \/ \E entries \in TrieFiles : LoadSessionsAndSubscriptions({}, entries)
    \/ \E w \in Workers : Call(w, "publish")
    \/ \E w \in Workers : Acquire(w)
    \/ \E w \in Workers : Release(w)
    \/ \E w \in Workers, t \in TrieTopics :
          /\ threads[w].op = "publish"
          /\ w \in subscriptionsRwlock.readers
          /\ Publish(t, "x", 0)

SpecTrie == Init /\ [][NextTrie]_vars

\* Calls that install no subscription: a connection whose session was
\* removed subscribes and unsubscribes, and a file with an entry for either
\* client-id is loaded into a registry that holds at most one of them.
NoInstallFilters == { <<"a">>, <<"a", "+">>, <<"$S">> }

NextNoInstall ==
    \/ \E c \in TrieConns : GiveClient(c)
    \/ \E c \in TrieConns, id \in TrieIds :
          RegisterClientAndKickExistingOne(c, id, FALSE)
    \/ \E id \in TrieIds : RemoveSession(id)
    \/ \E c \in TrieConns, f \in NoInstallFilters : AddSubscription(c, f, 1)
    \/ \E c \in TrieConns, f \in NoInstallFilters : RemoveSubscription(c, f)
    \/ \E entries \in TrieFiles : LoadSessionsAndSubscriptions({}, entries)

SpecNoInstall == Init /\ [][NextNoInstall]_vars

\* A retained PUBLISH on one worker next to a SUBSCRIBE on another, each
\* taking its locks one at a time.
RaceTopics == { <<"a">>, <<"a", "b">> }
RaceFilters == { <<"a">>, <<"a", "+">>, <<"a", "#">>, <<"#">> }
RaceQoS == {1}

NextRace ==
    \/ \E c \in TrieConns : GiveClient(c)
    \/ \E c \in TrieConns, id \in TrieIds :
          RegisterClientAndKickExistingOne(c, id, FALSE)
    \/ \E c \in TrieConns, f \in RaceFilters, q \in RaceQoS : AddSubscriptionWrlock(c, f, q)
    \/ \E w \in Workers : GiveClientRetainedMessagesRdlock(w)
    \/ \E w \in Workers : GiveClientRetainedMessagesReturn(w)
    \/ \E w \in Workers : AddSubscriptionUnlock(w)
    \/ \E w \in Workers, t \in RaceTopics, q \in RaceQoS :
          SetRetainedMessageWrlock(w, t, "x", q)
    \/ \E w \in Workers : SetRetainedMessageUnlock(w)
    \/ \E w \in Workers : QueuePacketAtSubscribersRdlock(w)
    \/ \E w \in Workers : QueuePacketAtSubscribersReturn(w)

SpecRace == Init /\ [][NextRace]_vars

\* The retained snapshot is loaded by the thread that starts the broker:
\* the store is filled and saved, a new process starts, and the file is
\* loaded one lock operation at a time.
LoadWorkers == {1}
LoadQoS == {0, 1}

LoadStep(w) ==
    \/ SetRetainedMessageCall(w)
    \/ SetRetainedMessageNested(w)
    \/ LoadRetainedMessagesReturn(w)

NextLoad ==
    \/ \E t \in PersistTopics, q \in LoadQoS :
          AllReturned /\ SetRetainedMessage(t, "x", q)
    \/ AllReturned /\ SaveRetainedMessages
    \/ AllReturned /\ Restart
    \/ \E w \in LoadWorkers, selfLock \in SelfLockOutcomes :
          LoadRetainedMessagesWrlock(w, selfLock)
    \/ \E w \in LoadWorkers : LoadStep(w)

\* A thread inside loadRetainedMessages goes on running.
SpecLoad ==
    Init /\ [][NextLoad]_vars /\ \A w \in LoadWorkers : WF_vars(LoadStep(w))

\* The store calls of the worker threads, as the lock operations they make.
NextLocks ==
    \/ \E w \in Workers, op \in StoreCalls : Call(w, op)
    \/ \E w \in Workers : Acquire(w)
    \/ \E w \in Workers : Release(w)

SpecLocks == Init /\ [][NextLocks]_vars

\* ------------------------------------------------------------- properties
\* MQTT topic matching (MQTT 3.1.1, 4.7): '+' stands for exactly one
\* subtopic, a final '#' for zero or more; a filter that starts with a
\* wildcard does not match a topic that starts with '$'.
RECURSIVE MqttMatchFrom(_, _, _)
MqttMatchFrom(f, t, i) ==
    IF i > Len(f) THEN i > Len(t)
    ELSE IF f[i] = "#" THEN TRUE
    ELSE IF i > Len(t) THEN FALSE
    ELSE (f[i] = "+" \/ f[i] = t[i]) /\ MqttMatchFrom(f, t, i + 1)

MqttMatches(f, t) ==
    StartsWithDollar(f) = StartsWithDollar(t) /\ MqttMatchFrom(f, t, 1)

\* The filter whose subscriptions the node at path p holds.
FilterOf(p) == Tail(p)

\* The publish called writePacket for the entry of session s at node p.
Invoked(p, s) ==
    \E j \in 1..Len(last.calls) : last.calls[j].node = p /\ last.calls[j].session = s

\* C1: after a publish of topic t, the subscription a registered session
\* holds on filter f was handed the packet if and only if f matches t
\* under the MQTT rules (a/# matches a, a/b and a/b/c).
C1_DeliveredIffMatches ==
    last.op = "publish" =>
        \A p \in NonRootNodes(subs) : \A i \in 1..Len(subs[p]) :
            SessionLock(subs[p][i].session) =>
                (Invoked(p, subs[p][i].session) <=> MqttMatches(FilterOf(p), last.topic))

\* C3: subscriptions on '$' filters live under rootDollar and all others
\* under root, and a publish only reaches subscriptions whose filter starts
\* with '$' exactly when its topic does.
C3_DollarRootsDisjoint ==
    /\ \A p \in NonRootNodes(subs) : (p[1] = ROOTDOLLAR) <=> (p[2] \in DollarTokens)
    /\ last.op = "publish" =>
          \A j \in 1..Len(last.calls) :
              StartsWithDollar(FilterOf(last.calls[j].node)) = StartsWithDollar(last.topic)

\* A '$' publish was delivered to a '$' subscription while the session
\* also holds a subscription on '#' under the main root.
C3_Witness ==
    /\ last.op = "publish" /\ StartsWithDollar(last.topic)
    /\ Len(last.calls) = 1
    /\ <<ROOT, "#">> \in DOMAIN subs
    /\ \E i \in 1..Len(subs[<<ROOT, "#">>]) : SessionLock(subs[<<ROOT, "#">>][i].session)

\* C2: a publish never calls writePacket twice for the same Subscription
\* entry (same node, same session), and no node holds two entries that
\* resolve to the same live session.
C2_InvokedOnce ==
    /\ last.op = "publish" =>
          \A i, j \in 1..Len(last.calls) :
              (last.calls[i].node = last.calls[j].node
                  /\ last.calls[i].session = last.calls[j].session) => i = j
    /\ \A p \in DOMAIN subs : \A i, j \in 1..Len(subs[p]) :
          (SessionLock(subs[p][i].session)
              /\ subs[p][i].session = subs[p][j].session) => i = j

\* A publish on a reached one session through the literal, the '+' and the
\* '#' branch, while node a also holds the entry of a dead session.
C2_Witness ==
    /\ last.op = "publish" /\ last.topic = <<"a">>
    /\ Len(last.calls) = 3
    /\ { last.calls[j].node : j \in 1..3 } = { <<ROOT, "a">>, <<ROOT, "+">>, <<ROOT, "#">> }
    /\ Len(subs[<<ROOT, "a">>]) = 2

\* A node keeps a live subscriber below it or in its own list.
HasLiveSubscriberBelow(p) ==
    \E q \in DOMAIN subs :
        /\ Len(q) >= Len(p) /\ SubSeq(q, 1, Len(p)) = p
        /\ \E i \in 1..Len(subs[q]) : SessionLock(subs[q][i].session)

\* C5: right after removeExpiredSessionsClients, under root and under
\* rootDollar, every non-root node has a direct or transitive live
\* subscriber and no Subscription entry refers to a dead session.
C5_SweepLeavesNoOrphans ==
    last.op = "removeExpiredSessionsClients" =>
        /\ \A p \in NonRootNodes(subs) : HasLiveSubscriberBelow(p)
        /\ \A p \in DOMAIN subs : \A i \in 1..Len(subs[p]) :
              SessionLock(subs[p][i].session)

\* The node that holds the subscriptions on filter f.
NodeOfFilter(f) == <<IF StartsWithDollar(f) THEN ROOTDOLLAR ELSE ROOT>> \o f

\* C4: when a session subscribes with QoS q to a filter, the node then
\* holds exactly one entry of that session, with QoS q whatever the QoS of
\* its earlier entry was, and the entries of the other sessions at the node
\* are as before.
C4_LastWriteWins ==
    [][ (last'.op = "addSubscription" /\ last'.session # NoSession) =>
            LET node == NodeOfFilter(last'.topic)
                s == last'.session
                before == IF node \in DOMAIN subs THEN subs[node] ELSE <<>>
                Mine(e) == e.session = s
                Others(e) == e.session # s
            IN /\ SelectSeq(subs'[node], Mine) = <<[session |-> s, qos |-> last'.qos]>>
               /\ SelectSeq(subs'[node], Others) = SelectSeq(before, Others) ]_vars

\* A session lowered the QoS of its subscription at a node that another
\* session subscribes to as well.
C4_Witness ==
    /\ last.op = "addSubscription" /\ last.session # NoSession
    /\ last.prev > last.qos
    /\ Len(subs[NodeOfFilter(last.topic)]) = 2
    /\ \E i \in 1..2 : subs[NodeOfFilter(last.topic)][i] = [session |-> last.session, qos |-> last.qos]

\* The connections a worker still holds that are bound to Session s.
BoundConnections(s) ==
    { c \in DOMAIN clients : ClientAlive(c) /\ clients[c].session = s }

\* C9: no two Session objects carry the same client-id, the session
\* registered under k carries client-id k, and at most one connection held
\* by a worker is bound to the session registered for a client-id.
C9_OneSessionPerClientId ==
    /\ \A s1, s2 \in DOMAIN sessions :
          sessions[s1].client_id = sessions[s2].client_id => s1 = s2
    /\ \A k \in ClientIds : sessionsById[k] # NoSession =>
          /\ sessionsById[k] \in DOMAIN sessions
          /\ sessions[sessionsById[k]].client_id = k
          /\ Cardinality(BoundConnections(sessionsById[k])) <= 1
          /\ BoundConnections(sessionsById[k]) \subseteq {sessions[sessionsById[k]].client}

\* A second connection took over the session of a client-id whose first
\* connection was still open; both connections refer to the session.
C9_Witness ==
    /\ last.op = "register" /\ last.kicked # NoClient /\ ~last.clean
    /\ sessionsById[last.clientid] = last.session
    /\ clients[last.kicked].session = last.session
    /\ BoundConnections(last.session) = {last.conn}

\* C10: when a connection registers with a client-id whose session has an
\* active connection that still exists, then at the return of
\* registerClientAndKickExistingOne that previous connection is marked
\* disconnecting and is out of its worker's table, and the active
\* connection of the session registered for the client-id is the new one.
C10_KickExisting ==
    [][ last'.op = "register" =>
            LET k == last'.clientid
                old == IF sessionsById[k] # NoSession
                       THEN MakeSharedClient(sessionsById[k]) ELSE NoClient
            IN old # NoClient =>
                  /\ clients'[old].disconnecting
                  /\ old \notin clients_by_fd'[clients[old].threadData]
                  /\ sessions'[sessionsById'[k]].client = last'.conn ]_vars

\* A clean-session connection registered while the previous connection of
\* its client-id was still open on the other worker.
C10_Witness ==
    /\ last.op = "register" /\ last.clean
    /\ last.kicked # NoClient
    /\ clients[last.kicked].threadData # clients[last.conn].threadData
    /\ clients[last.kicked].disconnecting

\* The retained messages stored anywhere in the two trees.
AllRetained == UNION { retained[p] : p \in DOMAIN retained }

\* The retained messages stored for the exact topic t.
StoredFor(t) == { m \in AllRetained : m.topic = t }

\* What a call of setRetainedMessage(t, p, q) should leave for topic t.
ExpectedAfterSet(t, p, q) ==
    IF p = "" THEN {} ELSE { [topic |-> t, payload |-> p, qos |-> q] }

IsExactFilter(f) == \A i \in 1..Len(f) : f[i] \notin Wildcards

\* C6: each setRetainedMessage(t, p, q) leaves for t exactly the message
\* (p, q), or nothing when p is empty, and leaves every other topic as it
\* was; no other operation changes a stored message; and a subscribe to the
\* exact topic t with max QoS m replays the stored message once, at
\* min(q, m), or nothing when none is stored.
C6_MostRecentRetainedWins ==
    [][ /\ last'.op = "setRetainedMessage" =>
              AllRetained' = { m \in AllRetained : m.topic # last'.topic }
                  \cup ExpectedAfterSet(last'.topic, last'.payload, last'.qos)
        /\ last'.op # "setRetainedMessage" => AllRetained' = AllRetained
        /\ (last'.op = "addSubscription" /\ last'.session # NoSession
                /\ IsExactFilter(last'.topic)) =>
              LET stored == SetToSeq(StoredFor(last'.topic))
              IN /\ Len(stored) <= 1
                 /\ Len(last'.calls) = Len(stored)
                 /\ \A i \in 1..Len(stored) :
                       /\ last'.calls[i].session = last'.session
                       /\ last'.calls[i].topic = last'.topic
                       /\ last'.calls[i].payload = stored[i].payload
                       /\ last'.calls[i].qos = Min(stored[i].qos, last'.qos) ]_vars

\* A subscribe to an exact '$' topic replayed its retained message at the
\* subscription's QoS, below the stored one.
C6_Witness ==
    /\ last.op = "addSubscription" /\ IsExactFilter(last.topic)
    /\ Len(last.topic) = 2 /\ StartsWithDollar(last.topic)
    /\ Len(last.calls) = 1
    /\ last.calls[1].qos = last.qos
    /\ \E m \in StoredFor(last.topic) : m.qos > last.qos

\* C7: retainedMessageCount is the number of retained messages stored in
\* the two retained trees.
C7_RetainedCountMatches ==
    retainedMessageCount = Cardinality(AllRetained)

\* An empty-payload publish on a topic that holds nothing, while one
\* message is stored under each root.
C7_Witness ==
    /\ last.op = "setRetainedMessage" /\ last.payload = ""
    /\ retainedMessageCount = 2
    /\ \E p \in DOMAIN retained : p[1] = RETAINEDROOTDOLLAR /\ retained[p] # {}
    /\ \E p \in DOMAIN retained : p[1] = RETAINEDROOT /\ retained[p] # {}
    /\ StoredFor(last.topic) = {}

\* The calls of the last operation that hand message m to the session.
ReplaysOf(m) ==
    { j \in 1..Len(last.calls) :
        /\ last.calls[j].session = last.session
        /\ last.calls[j].topic = m.topic /\ last.calls[j].payload = m.payload
        /\ last.calls[j].qos = Min(m.qos, last.qos) /\ last.calls[j].retain }

\* C8: a subscribe with filter f and max QoS m replays every stored
\* retained message whose topic matches f under the MQTT rules exactly
\* once, with retain set and QoS min(stored, m), and replays nothing else.
C8_ReplayMatchesFilter ==
    (last.op = "addSubscription" /\ last.session # NoSession) =>
        /\ \A m \in AllRetained :
              Cardinality(ReplaysOf(m)) = IF MqttMatches(last.topic, m.topic) THEN 1 ELSE 0
        /\ \A j \in 1..Len(last.calls) : \E m \in AllRetained : j \in ReplaysOf(m)

\* The packets the calls of one publish add to the queue of session s.
QueuedBy(calls, s) ==
    LET mine == SelectSeq(calls, LAMBDA call : call.session = s /\ call.qos > 0)
    IN [j \in 1..Len(mine) |->
          [topic |-> mine[j].topic, payload |-> mine[j].payload,
           qos |-> mine[j].qos, retain |-> mine[j].retain]]

\* The subscriptions in trie T that name session s.
SubscriptionsOf(T, s) ==
    { <<p, i>> \in UNION { {p} \X (1..Len(T[p])) : p \in DOMAIN T } :
        T[p][i].session = s }

(* C11: a register without clean-session for a client-id that has a       *)
(* session keeps that Session object: the registry entry is the same       *)
(* object, the trie is untouched and its subscriptions still resolve, the  *)
(* pending queue is preserved and written to the new connection during     *)
(* register, and sessionPresent is true afterwards.  A publish queues its  *)
(* QoS > 0 copies on every matched session whether or not the session has  *)
(* a connection.                                                           *)
C11_TakeoverKeepsSession ==
    [][ /\ last'.op = "publish" =>
              \A s \in DOMAIN sessions :
                 sessions'[s].pending = sessions[s].pending \o QueuedBy(last'.calls, s)
        /\ (last'.op = "register" /\ ~last'.clean
              /\ sessionsById[last'.clientid] # NoSession) =>
              LET k == last'.clientid
                  prior == sessionsById[k]
              IN /\ sessionsById'[k] = prior
                 /\ last'.session = prior
                 /\ clients'[last'.conn].session = prior
                 /\ sessions'[prior].client = last'.conn
                 /\ sessions'[prior].pending = sessions[prior].pending
                 /\ last'.flushed = sessions[prior].pending
                 /\ subs' = subs
                 /\ \A e \in SubscriptionsOf(subs', prior) : prior \in DOMAIN sessions'
                 /\ ConnackSessionPresent(k, last'.clean)
                 /\ sessionsById'[k] # NoSession
      ]_vars

\* A takeover of a session whose connection was gone and whose queue holds
\* a packet: the packet is written to the new connection.
C11_Witness ==
    /\ last.op = "register" /\ ~last.clean
    /\ last.prior # NoSession /\ last.kicked = NoClient
    /\ last.session = last.prior
    /\ last.flushed # <<>>
    /\ SubscriptionsOf(subs, last.session) # {}

C13_SessionPresentTouches ==
    [][ /\ last'.op = "sessionPresent" =>
              LET k == last'.clientid
              IN /\ last'.present = (sessionsById[k] # NoSession)
                 /\ sessionsById' = sessionsById
                 /\ DOMAIN sessions' = DOMAIN sessions
                 /\ \A s \in DOMAIN sessions :
                       sessions' [s] = IF s = sessionsById[k]
                                      THEN [sessions[s] EXCEPT !.lastTouched = now]
                                      ELSE sessions[s]
        /\ \A n \in ExpireSeconds :
              RemoveExpiredSessionsClients(n) =>
                 /\ (last.op = "sessionPresent" /\ last.present) =>
                       /\ sessionsById'[last.clientid] = sessionsById[last.clientid]
                       /\ sessionsById[last.clientid] \in DOMAIN sessions'
                 /\ \A k \in ClientIds :
                       (sessionsById[k] # NoSession
                          /\ now <= sessions[sessionsById[k]].lastTouched + n) =>
                       sessionsById'[k] = sessionsById[k]
      ]_vars

\* sessionPresent has just found a session whose last touch was before
\* the current time: without the touch a sweep of threshold 0 removes it.
C13_Witness ==
    /\ last.op = "sessionPresent" /\ last.present
    /\ last.prev >= 0 /\ last.prev < now
    /\ sessions[sessionsById[last.clientid]].lastTouched = now

(* C14: removeExpiredSessionsClients(n) removes from the registry exactly  *)
(* the sessions whose last touch is more than n seconds old and leaves the *)
(* others, and after it no subscription of a removed session is stored in  *)
(* the trie, so none receives a later publish.                             *)
C14_ExpireRemovesAndSweeps ==
    [][ /\ \A n \in ExpireSeconds :
              RemoveExpiredSessionsClients(n) =>
                 /\ \A k \in ClientIds :
                       sessionsById'[k] =
                          IF sessionsById[k] # NoSession
                               /\ sessions[sessionsById[k]].lastTouched + n < now
                          THEN NoSession ELSE sessionsById[k]
                 /\ DOMAIN sessions' =
                       { sessionsById'[k] : k \in ClientIds } \ {NoSession}
                 /\ \A s \in DOMAIN sessions \ DOMAIN sessions' :
                       SubscriptionsOf(subs', s) = {}
        /\ last'.op = "publish" =>
              \A j \in 1..Len(last'.calls) : last'.calls[j].session \in DOMAIN sessions
      ]_vars

(* C15: removeSession(k) removes the session the registry holds for k, if  *)
(* any, and leaves every other session in place; when the registry holds   *)
(* no session for k it leaves the registry unchanged.                      *)
C15_RemoveSessionById ==
    [][ \A k \in ClientIds :
           RemoveSession(k) =>
              /\ sessionsById' = [sessionsById EXCEPT ![k] = NoSession]
              /\ sessions' = Restrict(sessions, DOMAIN sessions \ {sessionsById[k]})
      ]_vars

(* C16: unPwdCheck evaluates the password file first.  A result other than *)
(* success is returned and unpwd_check of the plugin is not called; on     *)
(* success with a plugin configured and initialized the plugin is called   *)
(* and its result is what unPwdCheck returns; on success without a plugin  *)
(* success is returned.                                                    *)
C16_LoginComposition ==
    [][ /\ \A w \in Workers, username \in Usernames, password \in Passwords :
              UnPwdCheck(w, username, password) =>
                 LET a == authPlugin[w]
                     first == UnPwdCheckFromMosquittoPasswordFile(a, username, password)
                     after == authPlugin'[w]
                 IN /\ after.ret.firstResult = first
                    /\ first # "success" =>
                          /\ after.pc = "idle" /\ ~after.ret.pluginCalled
                          /\ after.ret.result = first
                    /\ (first = "success" /\ a.useExternalPlugin /\ a.initialized) =>
                          after.pc = "unpwd_check" /\ after.ret.pluginCalled
                    /\ (first = "success" /\ ~a.useExternalPlugin) =>
                          /\ after.pc = "idle" /\ ~after.ret.pluginCalled
                          /\ after.ret.result = "success"
        /\ \A w \in Workers, result \in AuthResults :
              UnPwdCheckReturn(w, result) =>
                 /\ authPlugin'[w].pc = "idle"
                 /\ authPlugin'[w].ret.result = result
        /\ \A w \in Workers :
              authPlugin'[w].pc = "unpwd_check" =>
                 authPlugin'[w].ret.firstResult = "success"
      ]_vars

\* A login the password file accepted, with a password file configured,
\* that the plugin then denied.
C16_Witness ==
    \E w \in Workers :
       /\ settings.mosquittoPasswordFile # ""
       /\ authPlugin[w].pc = "idle"
       /\ authPlugin[w].ret.op = "unPwdCheck"
       /\ authPlugin[w].ret.firstResult = "success"
       /\ authPlugin[w].ret.pluginCalled
       /\ authPlugin[w].ret.result = "login_denied"

(* C17: without a plugin every aclCheck returns success and calls nothing; *)
(* without a plugin and without a password file every unPwdCheck returns   *)
(* success; with a plugin configured and initialized aclCheck calls        *)
(* acl_check of the plugin and returns exactly its result.                 *)
C17_FailOpenUnconfigured ==
    [][ /\ \A w \in Workers :
              AclCheck(w) =>
                 LET a == authPlugin[w]
                     after == authPlugin'[w]
                 IN /\ ~a.useExternalPlugin =>
                          /\ after.pc = "idle" /\ ~after.ret.pluginCalled
                          /\ after.ret.result = "success"
                    /\ (a.useExternalPlugin /\ a.initialized) =>
                          after.pc = "acl_check" /\ after.ret.pluginCalled
        /\ \A w \in Workers, result \in AuthResults :
              AclCheckReturn(w, result) =>
                 /\ authPlugin'[w].pc = "idle"
                 /\ authPlugin'[w].ret.result = result
        /\ \A w \in Workers, username \in Usernames, password \in Passwords :
              (UnPwdCheck(w, username, password)
                 /\ ~authPlugin[w].useExternalPlugin
                 /\ settings.mosquittoPasswordFile = "") =>
                 /\ authPlugin'[w].pc = "idle"
                 /\ authPlugin'[w].ret.result = "success"
        /\ \A w \in Workers :
              (settings.authPluginPath = "" /\ authPlugin[w].pc # "constructed") =>
                 ~authPlugin[w].useExternalPlugin
      ]_vars

\* Nothing is configured and an aclCheck has returned success.
C17_Witness ==
    \E w \in Workers :
       /\ settings.authPluginPath = "" /\ settings.mosquittoPasswordFile = ""
       /\ authPlugin[w].pc = "idle"
       /\ authPlugin[w].ret.op = "aclCheck"
       /\ ~authPlugin[w].ret.pluginCalled
       /\ authPlugin[w].ret.result = "success"

(* C18: after a reload in which security_cleanup(true) or                  *)
(* security_init(true) returned non-zero, and until a later reload whose   *)
(* security_init returns zero, initialized is false on that worker, every  *)
(* aclCheck returns error without calling the plugin, and every unPwdCheck *)
(* that passes the password file returns error without calling the plugin. *)
C18_FailClosedAfterReload ==
    [][ /\ \A w \in Workers, result \in PluginReturns \ {0} :
              ((SecurityCleanupReturn(w, result) \/ SecurityInitReturn(w, result))
                 /\ authPlugin[w].reloading) =>
                 /\ authPlugin'[w].reloadFailed
                 /\ authPlugin'[w].pc = "idle"
        /\ \A w \in Workers :
              (authPlugin[w].reloadFailed /\ ~authPlugin'[w].reloadFailed) =>
                 /\ SecurityInitReturn(w, 0)
                 /\ authPlugin[w].reloading
        /\ \A w \in Workers :
              authPlugin'[w].reloadFailed =>
                 /\ ~authPlugin'[w].initialized
                 /\ authPlugin'[w].pc \notin {"acl_check", "unpwd_check"}
        /\ \A w \in Workers :
              (authPlugin[w].reloadFailed /\ AclCheck(w)) =>
                 /\ authPlugin'[w].pc = "idle"
                 /\ ~authPlugin'[w].ret.pluginCalled
                 /\ authPlugin'[w].ret.result = "error"
        /\ \A w \in Workers, username \in Usernames, password \in Passwords :
              (authPlugin[w].reloadFailed /\ UnPwdCheck(w, username, password)) =>
                 /\ authPlugin'[w].pc = "idle"
                 /\ ~authPlugin'[w].ret.pluginCalled
                 /\ authPlugin'[w].ret.result =
                       IF authPlugin'[w].ret.firstResult = "success"
                       THEN "error" ELSE authPlugin'[w].ret.firstResult
      ]_vars

\* After a failed reload an aclCheck has returned error.
C18_Witness ==
    \E w \in Workers :
       /\ authPlugin[w].reloadFailed
       /\ authPlugin[w].pc = "idle"
       /\ authPlugin[w].ret.op = "aclCheck"
       /\ ~authPlugin[w].ret.pluginCalled
       /\ authPlugin[w].ret.result = "error"

\* The workers whose thread is inside a check function of the plugin.
InsideCheck == { w \in Workers : authPlugin[w].pc \in {"acl_check", "unpwd_check"} }

\* The workers whose thread is inside a lifecycle function of the plugin.
InsideLifecycle ==
    { w \in Workers :
        authPlugin[w].pc \in {"init", "security_init", "security_cleanup", "cleanup"} }

(* C19: with authPluginSerializeAuthChecks set, at most one worker thread  *)
(* at a time is inside acl_check or unpwd_check of the plugin, whichever   *)
(* of the two, and that thread holds authChecksMutex.                      *)
C19_ChecksSerialized ==
    settings.authPluginSerializeAuthChecks =>
       /\ Cardinality(InsideCheck) <= 1
       /\ \A w \in InsideCheck : authChecksMutex = w
       /\ InsideCheck = {} => authChecksMutex = Unlocked

\* One worker is inside acl_check under the lock while the other worker
\* has an initialized plugin and is free to ask for a check.
C19_Witness ==
    /\ settings.authPluginSerializeAuthChecks
    /\ \E w \in Workers, v \in Workers :
          /\ w # v
          /\ authPlugin[w].pc = "acl_check" /\ authChecksMutex = w
          /\ authPlugin[v].pc = "idle"
          /\ authPlugin[v].useExternalPlugin /\ authPlugin[v].initialized
          /\ authPlugin[v].ret.op = "unPwdCheck" /\ authPlugin[v].ret.pluginCalled

\* Without the setting two workers are inside check functions at once.
C19_OverlapWithoutSetting ==
    /\ ~settings.authPluginSerializeAuthChecks
    /\ Cardinality(InsideCheck) = 2

(* C20: with authPluginSerializeInit set, at most one worker thread at a   *)
(* time is inside init, security_init, security_cleanup or cleanup of the  *)
(* plugin, also when several workers reload at once.                       *)
C20_LifecycleSerialized ==
    settings.authPluginSerializeInit => Cardinality(InsideLifecycle) <= 1

(* C21: once setQuitting has been called on a worker's Authentication, no  *)
(* call of init or securityInit on it enters init or security_init of the  *)
(* plugin: the call returns, leaves initialized and initMutex as they were *)
(* and the worker goes on; this includes a call that was blocked on        *)
(* initMutex when the flag was set.                                        *)
C21_QuittingSkipsInit ==
    [][ /\ \A w \in Workers :
              (authPlugin[w].quitting /\ (InitLock(w) \/ SecurityInitLock(w))) =>
                 /\ authPlugin'[w].pc \notin {"init", "security_init"}
                 /\ authPlugin'[w].pc =
                       IF authPlugin[w].pc = "init_lock"
                       THEN "security_init_lock" ELSE "idle"
                 /\ authPlugin'[w].initialized = authPlugin[w].initialized
                 /\ initMutex' = initMutex
        /\ \A w \in Workers :
              (authPlugin[w].quitting
                 /\ authPlugin[w].pc \notin {"init", "security_init"}) =>
                 authPlugin'[w].pc \notin {"init", "security_init"}
        /\ \A w \in Workers : authPlugin[w].quitting => authPlugin'[w].quitting
      ]_vars

\* A call that was blocked on initMutex when setQuitting ran has since got
\* the mutex and returned without the plugin.
C21_Witness ==
    \E w \in Workers :
       /\ settings.authPluginSerializeInit
       /\ authPlugin[w].quitting
       /\ authPlugin[w].quitSeen = "skipped"
       /\ authPlugin[w].pc \in {"security_init_lock", "idle"}

(* C22: the result of the password file in unPwdCheck is success for every *)
(* login when the password-file path is empty, and login_denied for every  *)
(* username, password and allowAnonymous when a password file is           *)
(* configured and its table was never loaded or is loaded with no entry.   *)
C22_StoreOutcomeByConfiguration ==
    [][ \A w \in Workers, username \in Usernames, password \in Passwords :
           UnPwdCheck(w, username, password) =>
              LET a == authPlugin[w]
                  first == authPlugin'[w].ret.firstResult
              IN /\ settings.mosquittoPasswordFile = "" => first = "success"
                 /\ (settings.mosquittoPasswordFile # ""
                       /\ ~a.mosquittoPasswordEntries.loaded) =>
                       first = "login_denied"
                 /\ (settings.mosquittoPasswordFile # ""
                       /\ a.mosquittoPasswordEntries.loaded
                       /\ a.mosquittoPasswordEntries.table = {}) =>
                       first = "login_denied"
      ]_vars

(* C23: for a username whose entry in the loaded table is (salt, digest of *)
(* pwd followed by salt), the password file accepts a login with pwd and   *)
(* denies a login with any other password, whatever allowAnonymous is.     *)
C23_PasswordVerification ==
    [][ \A w \in Workers, username \in Usernames, password \in Passwords :
           UnPwdCheck(w, username, password) =>
              LET table == authPlugin[w].mosquittoPasswordEntries.table
              IN \A e \in table, pwd \in Passwords :
                    (authPlugin[w].mosquittoPasswordEntries.loaded
                       /\ e.username = username
                       /\ e = [username |-> username, salt |-> e.salt,
                               cryptedPassword |-> Digest(pwd, e.salt)]) =>
                       authPlugin'[w].ret.firstResult =
                          IF password = pwd THEN "success" ELSE "login_denied"
      ]_vars

\* With allowAnonymous set, a login for a stored username with a password
\* that is not the stored one, but gives the same bytes with another salt,
\* has been denied.
C23_Witness ==
    \E w \in Workers :
       /\ settings.allowAnonymous
       /\ authPlugin[w].ret.op = "unPwdCheck"
       /\ authPlugin[w].ret.firstResult = "login_denied"
       /\ authPlugin[w].mosquittoPasswordEntries.table =
             {[username |-> "u", salt |-> "ss", cryptedPassword |-> Digest("p", "ss")]}

\* The table entry a well-formed line stands for.
EntryOf(line) ==
    [username |-> line.username, salt |-> line.salt,
     cryptedPassword |-> line.cryptedPassword]

(* C24: a call of loadMosquittoPasswordFile with a configured, readable    *)
(* file reloads the table exactly when the ctime of the file differs from  *)
(* the ctime recorded at the last load, in seconds or in nanoseconds.  A   *)
(* reload records the ctime and replaces the table as a whole: every entry *)
(* is that of a well-formed line of the file and every username with a     *)
(* well-formed line has an entry; without a reload nothing changes.        *)
C24_ReloadIffCtimeChanged ==
    [][ \A w \in Workers, ctime \in PasswordCtimes, lines \in PasswordFileTexts :
           (/\ settings.mosquittoPasswordFile # ""
            /\ authPlugin'[w].loadCall = <<TRUE, ctime>>
            /\ LoadMosquittoPasswordFile(w, TRUE, ctime, lines)) =>
              LET a == authPlugin[w]
                  after == authPlugin'[w]
              IN IF ctime # a.mosquittoPasswordFileLastLoad
                 THEN /\ after.mosquittoPasswordFileLastLoad = ctime
                      /\ after.mosquittoPasswordEntries.loaded
                      /\ \A e \in after.mosquittoPasswordEntries.table :
                            \E i \in 1..Len(lines) :
                               lines[i].wellFormed /\ EntryOf(lines[i]) = e
                      /\ \A i \in 1..Len(lines) :
                            lines[i].wellFormed =>
                               \E e \in after.mosquittoPasswordEntries.table :
                                  e.username = lines[i].username
                 ELSE /\ after.mosquittoPasswordFileLastLoad =
                            a.mosquittoPasswordFileLastLoad
                      /\ after.mosquittoPasswordEntries = a.mosquittoPasswordEntries
      ]_vars

\* fetch_for_subscribe: the (topic, payload, qos) a subscribe to filter f
\* is given from the retained tree R.
FetchForSubscribe(R, f) ==
    LET calls == GiveClientRetainedMessages(1, f, 2, R)
    IN { [topic |-> calls[i].topic, payload |-> calls[i].payload,
          qos |-> calls[i].qos] : i \in 1..Len(calls) }

EmptyRetainedTree == [p \in {<<RETAINEDROOT>>, <<RETAINEDROOTDOLLAR>>} |-> {}]

(* C25: the file saveRetainedMessages writes, loaded by                    *)
(* loadRetainedMessages into an empty store, gives a store that returns    *)
(* the same (topic, payload, qos) as the saved store for every subscribe   *)
(* filter, '$' topics included, and has the same retained count.           *)
C25_RetainedRoundTrip ==
    [][ SaveRetainedMessages =>
          LET loaded == LoadRetainedMessagesResult(
                            ReadData(retainedMessagesFile'), 1, EmptyRetainedTree, 0)
          IN /\ \A f \in Filters :
                   FetchForSubscribe(loaded.tree, f) = FetchForSubscribe(retained, f)
             /\ loaded.count = retainedMessageCount
      ]_vars

\* The subscription entries a snapshot should hold for the trie T: one for
\* every subscription of a session of the registry.
SnapshotHolds(data, T) ==
    \A p \in DOMAIN T : \A i \in 1..Len(T[p]) :
       LET s == T[p][i].session
       IN (SessionLock(s) /\ sessions[s].client_id \in data.sessions) =>
             \E j \in 1..Len(data.subscriptions) :
                data.subscriptions[j] =
                   [topic |-> FilterOf(p), clientId |-> sessions[s].client_id,
                    qos |-> T[p][i].qos]

(* C26: saveSessionsAndSubscriptions writes every session of the registry  *)
(* and every subscription of such a session, under the '$' root and with   *)
(* wildcards included; loadSessionsAndSubscriptions into an empty store    *)
(* registers every session of the file and gives each the subscriptions    *)
(* the file holds for it, with the same filter and QoS, and drops the      *)
(* entries of client-ids the file has no session for.                      *)
C26_SessionsRoundTrip ==
    [][ /\ SaveSessionsAndSubscriptions =>
             LET data == ReadData(sessionsFile')
             IN /\ data.sessions = { k \in ClientIds : sessionsById[k] # NoSession }
                /\ SnapshotHolds(data, subs)
        /\ (/\ sessionsFile.exists
            /\ StoreAsConstructed
            /\ LoadSessionsAndSubscriptions(ReadData(sessionsFile).sessions,
                                            ReadData(sessionsFile).subscriptions)) =>
             LET data == ReadData(sessionsFile)
                 entries == data.subscriptions
             IN /\ \A k \in data.sessions :
                      /\ sessionsById'[k] # NoSession
                      /\ sessions'[sessionsById'[k]].client_id = k
                /\ \A j \in 1..Len(entries) :
                      LET node == DeepestPath(entries[j].topic, entries[j].topic)
                      IN entries[j].clientId \in data.sessions =>
                            \E i \in 1..Len(subs'[node]) :
                               subs'[node][i] =
                                  [session |-> sessionsById'[entries[j].clientId],
                                   qos |-> entries[j].qos]
                /\ \A p \in DOMAIN subs' : \A i \in 1..Len(subs'[p]) :
                      \E j \in 1..Len(entries) :
                         /\ entries[j].clientId \in data.sessions
                         /\ entries[j].topic = FilterOf(p)
                         /\ subs'[p][i] =
                               [session |-> sessionsById'[entries[j].clientId],
                                qos |-> entries[j].qos]
      ]_vars

(* C28: setRetainedMessage with an empty payload creates no node of the    *)
(* retained tree: the node set after the call is the node set before it,   *)
(* and the messages are the ones before without the message of the topic.  *)
C28_EmptyPayloadCreatesNoNode ==
    [][ \A t \in RetainedTopics, q \in RetainedQoS :
           SetRetainedMessage(t, "", q) =>
              /\ DOMAIN retained' = DOMAIN retained
              /\ \A p \in DOMAIN retained :
                    retained'[p] = retained[p] \ StoredFor(t)
      ]_vars

\* The thread of worker w is in rdlock() or wrlock() and is not granted the
\* lock in this state.
WaitsForLock(w) ==
    /\ threads[w] # IdleThread
    /\ NextLockOp(w).do \in {"rdlock", "wrlock"}
    /\ IF NextLockOp(w).do = "wrlock"
       THEN ~CanWrlock(RwlockOf(NextLockOp(w).lock))
       ELSE ~CanRdlock(RwlockOf(NextLockOp(w).lock))

\* Thread h holds the lock thread w waits for, in a mode that keeps w out.
KeepsOut(h, w) ==
    LET l == RwlockOf(NextLockOp(w).lock)
    IN \/ l.writer = h
       \/ NextLockOp(w).do = "wrlock" /\ h \in l.readers

\* A set of threads each of which waits for a lock that a thread of the set
\* holds: none of them ever runs again.
Deadlocked(D) ==
    /\ D # {}
    /\ \A w \in D : WaitsForLock(w) /\ \E h \in D : KeepsOut(h, w)

(* C27: no thread asks for subscriptionsRwlock while it holds              *)
(* retainedMessagesRwlock, and in no reachable state of the worker threads *)
(* running publish, addSubscription, removeSubscription, register,         *)
(* sessionPresent, expiry and the two saves is there a set of threads that *)
(* wait for each other's locks.                                            *)
C27_LockOrderNoDeadlock ==
    /\ \A w \in Workers :
          (threads[w] # IdleThread
             /\ NextLockOp(w).do \in {"rdlock", "wrlock"}
             /\ NextLockOp(w).lock = "subscriptions") =>
             ~HoldsRwlock(retainedMessagesRwlock, w)
    /\ \A D \in SUBSET Workers : ~Deadlocked(D)

\* A subscribe holds the write lock of the trie and waits for the retained
\* lock, which a publish holds for writing.
C27_Witness ==
    \E w, h \in Workers :
       /\ threads[w].op = "addSubscription"
       /\ subscriptionsRwlock.writer = w
       /\ WaitsForLock(w)
       /\ threads[h].op = "publish"
       /\ retainedMessagesRwlock.writer = h

(* C29: registerClientAndKickExistingOne for a connection without a        *)
(* client-id fails with ProtocolError, leaves the write lock of the trie   *)
(* free, and leaves the registry, every session and its connection, the    *)
(* client tables and the trie as they were.                                *)
C29_EmptyClientIdRejected ==
    [][ \A c \in Conns, clean \in BOOLEAN :
           RegisterClientAndKickExistingOne(c, "", clean) =>
              /\ last'.error = "ProtocolError"
              /\ subscriptionsRwlock' = UnlockedRwlock
              /\ sessionsById' = sessionsById
              /\ sessions' = sessions
              /\ clients' = clients
              /\ clients_by_fd' = clients_by_fd
              /\ subs' = subs
      ]_vars

\* A CONNECT without a client-id was rejected while another connection is
\* the active connection of a session.
C29_Witness ==
    /\ last.op = "register"
    /\ last.error = "ProtocolError"
    /\ \E k \in ClientIds :
          /\ sessionsById[k] # NoSession
          /\ MakeSharedClient(sessionsById[k]) \notin {NoClient, last.conn}

\* Every child entry and every set wildcard slot points to a node, below a
\* node that exists, and no publish fails the assertion of
\* publishRecursively.
TrieWellFormed ==
    /\ \A p \in DOMAIN subs :
          /\ subs[p] # NullNode
          /\ Len(p) > 1 => SubSeq(p, 1, Len(p) - 1) \in DOMAIN subs
    /\ \A t \in PublishTopics :
          ~PublishAssertionFails(t, 1, <<IF DollarArgument(t) THEN ROOTDOLLAR ELSE ROOT>>,
                                 subs)

(* C30: in every trie state reached through addSubscription,               *)
(* removeSubscription, loadSessionsAndSubscriptions and the sweep, every   *)
(* child entry and set wildcard slot points to an existing node, so the    *)
(* assertion of publishRecursively holds for every publish topic; and      *)
(* while a thread is inside the walk of a publish, holding the read lock   *)
(* of the trie, no step changes the trie.                                  *)
C30_MatchingNeverFails ==
    /\ []TrieWellFormed
    /\ [][subscriptionsRwlock.readers # {} => subs' = subs]_vars

\* A publish hands a packet to a subscriber while a second thread is inside
\* a publish as well and the trie has a '+' node.
C30_Witness ==
    /\ last.op = "publish"
    /\ last.calls # <<>>
    /\ Cardinality(subscriptionsRwlock.readers) = 2
    /\ \E p \in DOMAIN subs : p[Len(p)] = "+"

(* C31: a call that installs no subscription leaves the trie as it was:    *)
(* addSubscription by a connection whose client-id has no session,         *)
(* loadSessionsAndSubscriptions of entries whose client-ids have no        *)
(* session, and removeSubscription of a filter whose path is not in the    *)
(* trie create no node and change no subscriber list.                      *)
C31_NoInstallLeavesTrie ==
    [][ /\ \A c \in TrieConns, f \in NoInstallFilters :
              /\ AddSubscription(c, f, 1)
              /\ sessionsById[clients[c].clientid] = NoSession
              => subs' = subs
        /\ \A entries \in TrieFiles :
              /\ LoadSessionsAndSubscriptions({}, entries)
              /\ \A i \in 1..Len(entries) : sessionsById[entries[i].clientId] = NoSession
              => subs' = subs
        /\ \A c \in TrieConns, f \in NoInstallFilters :
              /\ RemoveSubscription(c, f)
              /\ DeepestPath(f, f) \notin DOMAIN subs
              => subs' = subs
      ]_vars

\* Session s has been handed a copy of the message on topic t: a copy of
\* QoS 1 or 2 stays in the pending queue of the session.
Received(s, t) ==
    \E i \in 1..Len(sessions[s].pending) : sessions[s].pending[i].topic = t

(* C32: when a retained PUBLISH with a payload on topic t and an           *)
(* addSubscription of a session with a filter that matches t have both     *)
(* returned, in whatever order their lock operations interleaved, the      *)
(* session has been handed the message at least once, as retained replay   *)
(* or as live delivery.                                                    *)
C32_RetainedRaceNotLost ==
    \A t \in RaceTopics, f \in RaceFilters, k \in TrieIds :
       ( /\ AllReturned
         /\ StoredFor(t) # {}
         /\ sessionsById[k] # NoSession
         /\ NodeOfFilter(f) \in DOMAIN subs
         /\ FindSubscription(subs[NodeOfFilter(f)],
                             [session |-> sessionsById[k], qos |-> 0]) # 0
         /\ MqttMatches(f, t) )
       => Received(sessionsById[k], t)

\* Thread w has asked for the write lock of the retained tree while it
\* holds that lock itself.
AsksForOwnLock(w) ==
    /\ threads[w].op = "loadRetainedMessages" /\ threads[w].pc = 2
    /\ retainedMessagesRwlock.writer = w

\* Thread w is inside loadRetainedMessages of a file with a message.
LoadsMessages(w) ==
    /\ threads[w].op = "loadRetainedMessages"
    /\ Len(threads[w].messages) >= 1

\* loadRetainedMessages of thread w has returned without an error, every
\* message of the file is in the store and the thread holds no lock.
LoadReturned(w) ==
    /\ threads[w] = IdleThread
    /\ last.op = "loadRetainedMessages" /\ last.error = "none"
    /\ \A i \in 1..Len(retainedMessagesFile.data) :
          retainedMessagesFile.data[i] \in StoredFor(retainedMessagesFile.data[i].topic)
    /\ ~HoldsRwlock(retainedMessagesRwlock, w)

(* C33: loadRetainedMessages of a readable file with n >= 1 messages       *)
(* terminates: the thread never asks for a lock it already holds, and the  *)
(* call eventually returns with all n messages in the store and the        *)
(* retained lock released.                                                 *)
C33_LoadTerminates ==
    /\ [](\A w \in LoadWorkers : ~AsksForOwnLock(w))
    /\ \A w \in LoadWorkers : LoadsMessages(w) ~> LoadReturned(w)

\* The plugin of Authentication a is ready for checks: its init and its
\* most recent security_init have run and returned zero, and
\* security_cleanup was not called since.
PluginReady(a) == a.initDone /\ a.securityInitDone

(* C34: with a plugin configured, aclCheck and unPwdCheck call the check   *)
(* function of the plugin only when the plugin's init and its most recent  *)
(* security_init have both run and returned success with no                *)
(* security_cleanup since; in every other state the check returns error    *)
(* (unPwdCheck: when the password file lets the login through).            *)
C34_ChecksOnlyWhenReady ==
    [][ \A w \in LoginWorkers :
          /\ (AclCheck(w) /\ authPlugin[w].useExternalPlugin) =>
                ( ~PluginReady(authPlugin[w]) =>
                     /\ ~authPlugin'[w].ret.pluginCalled
                     /\ authPlugin'[w].ret.result = "error" )
          /\ \A username \in Usernames, password \in Passwords :
                ( /\ UnPwdCheck(w, username, password)
                  /\ authPlugin[w].useExternalPlugin
                  /\ UnPwdCheckFromMosquittoPasswordFile(authPlugin[w], username,
                                                         password) = "success" ) =>
                   ( ~PluginReady(authPlugin[w]) =>
                        /\ ~authPlugin'[w].ret.pluginCalled
                        /\ authPlugin'[w].ret.result = "error" )
      ]_vars

====
